---- MODULE Spec2Model ----
(***************************************************************************)
(* Model of the completion client of the Summarize plugin:                 *)
(*   LLMService.summarize / completionWithAutoFree / completion /          *)
(*   streamCompletion                     (src/src/services/llm-service.ts)*)
(*   SummarizeAction.executeStreamingSummarize and the Escape listener     *)
(*                                         (src/src/actions/summarize.ts)  *)
(* the streaming insert into the editor: setupStreamingInsert,             *)
(*   handleStreamChunk              (src/src/actions/summarize.ts)         *)
(* and the content extractor with link following:                          *)
(*   ContentExtractor.extractFromUrl          (src/test/cli-test.ts)       *)
(*                                                                         *)
(* Strings are sequences of words; a chunk of streamed text is a sequence  *)
(* of characters.  One action is one resumption of the async call chain:   *)
(* everything the code does between two awaits happens in one step.        *)
(***************************************************************************)
EXTENDS Integers, Sequences, FiniteSets, TLC

VARIABLES
    settings,       \* SummarizeSettings: defaultModel, freeModelRank
    call,           \* the call under way: entry point, options.model, onStream
    pc,             \* position of the async call chain
    requestedModel, \* summarize: options.model || settings.defaultModel
    idx,            \* completionWithAutoFree: position of the for..of iterator
    lastError,      \* completionWithAutoFree: lastError
    fullContent,    \* streamCompletion: fullContent
    errorFrame,     \* error field of the last frame of the current attempt that had one
    attempts,       \* every completion request issued, in order, with its outcome
    attemptError,   \* the exception of the last attempt that failed
    lastResponse,   \* the response of requestUrl that settled the call
    streamed,       \* every chunk handed to onStream, in order
    aborted,        \* abortController.signal.aborted
    abortAt,        \* number of chunks delivered when abort() ran, -1 before
    listeners,      \* keydown listeners registered on the document
    result,         \* how LLMService.summarize settled
    actionResult,   \* how executeStreamingSummarize settled
    editor,         \* the editor: the lines of its document and the cursor line
    ctx,            \* StreamingInsertContext: insertPos, indent, currentContent
    insertPc,       \* position of executeStreamingSummarize
    operations,     \* streaming-insert operations started so far
    stack,          \* extractFromUrl: the calls under way, innermost last
    calls,          \* every call of extractFromUrl, in order
    fetches,        \* every request of the extractor, in order, with its outcome
    extraction,     \* how the outermost extractFromUrl settled
    customPrompt,   \* settings.customPrompt
    outputLanguage, \* settings.outputLanguage
    prompts,        \* every call of buildSummarizationPrompt, in order
    insertBehavior, \* settings.insertBehavior
    stream,         \* summarizeText: the parameter stream
    selection,      \* the editor: the selected range of the cursor line
    clipboard,      \* navigator.clipboard: the text it holds
    original,       \* the editor when summarizeText was called
    heap,           \* the arrays of model ids, by the order of their creation
    freeModelRank,  \* settings.openRouter.freeModelRank: the array it refers to
    selectedModels, \* settings.openRouter.selectedModels
    dragId,         \* the settings tab: the row being dragged
    lastOperation,  \* the settings tab: the operation that ran last
    fallback,       \* completionWithAutoFree: freeModels, the iterator, the models tried
    body,           \* response.body: the characters the reader has not handed out
    sent,           \* the delta contents the server wrote to response.body
    now,            \* Date.now(), in milliseconds
    openLlmBackoffUntil,  \* SummarizeSettingTab.openLlmBackoffUntil
    openLlmLastRequestAt, \* SummarizeSettingTab.openLlmLastRequestAt
    openLlm,        \* requestOpenLlm: position, attempt, calls made so far
    requests        \* every Open LLM request, with the time and the backoff it was issued under

vars == <<settings, call, pc, requestedModel, idx, lastError, fullContent,
          errorFrame, attempts, attemptError, lastResponse, streamed, aborted,
          abortAt, listeners, result, actionResult,
          editor, ctx, insertPc, operations,
          stack, calls, fetches, extraction,
          customPrompt, outputLanguage, prompts,
          insertBehavior, stream, selection, clipboard, original,
          heap, freeModelRank, selectedModels, dragId, lastOperation, fallback,
          body, sent,
          now, openLlmBackoffUntil, openLlmLastRequestAt, openLlm, requests>>

\* the state of the streaming insert
insertVars == <<editor, ctx, insertPc, operations>>

\* the state of the content extractor
extractVars == <<stack, calls, fetches, extraction>>

\* the state of the prompt builder
promptVars == <<customPrompt, outputLanguage, prompts>>

\* the state of the parts that follow the content extractor
\* the state of summarizeText and insertSummary
placeVars == <<insertBehavior, stream, selection, clipboard, original>>

\* the state of the ranked list, of the settings tab and of a fallback call
rankVars == <<heap, freeModelRank, selectedModels, dragId, lastOperation,
              fallback>>

\* the body of a streamed response
sseVars == <<body, sent>>

\* the state of the Open LLM benchmark requests
openLlmVars == <<now, openLlmBackoffUntil, openLlmLastRequestAt, openLlm,
                 requests>>

laterVars == <<promptVars, placeVars, rankVars, sseVars, openLlmVars>>

(***************************************************************************)
(* Bounds                                                                  *)
(***************************************************************************)
MaxRank == 3
MaxLines == 2
MaxChunks == 2
MaxOperations == 2

(***************************************************************************)
(* Strings                                                                 *)
(***************************************************************************)
AUTO_FREE == "auto-free"

\* the model catalogue, in the order the ranked lists are drawn from
Catalogue == <<"m1", "m2", "m3", "m4", "m5">>

\* String.prototype.toLowerCase, word by word
ToLowerWord(w) ==
    CASE w = "Rate limit" -> "rate limit"
      [] w = "Rate Limit" -> "rate limit"
      [] w = "RATE LIMIT" -> "rate limit"
      [] w = "Too Many Requests" -> "too many requests"
      [] w = "Error" -> "error"
      [] OTHER -> w

toLowerCase(s) == [i \in DOMAIN s |-> ToLowerWord(s[i])]

\* String.prototype.includes
includes(s, w) == \E i \in DOMAIN s : s[i] = w

NoError == [type |-> "none", msg |-> <<>>]

Err(type, msg) == [type |-> type, msg |-> msg]

\* texts the gateway may put in a response body or in an error field
UpstreamTexts ==
    { <<>>,
      <<"overloaded">>,
      <<"Too Many Requests">>,
      <<"provider", "error">>,
      <<"Rate Limit", "error">> }

\* an error field of a JSON body or frame
ErrorFields ==
    {[message |-> t, code |-> IF t = <<>> THEN 429 ELSE 502] : t \in UpstreamTexts}

NoErrorField == [message |-> <<"absent">>, code |-> 0]

\* JSON.stringify(data.error)
JSONstringify(e) ==
    <<"{message:", "code:", ToString(e.code), "}">>

\* data.error.message || JSON.stringify(data.error)
ErrorFieldMessage(e) ==
    IF e.message # <<>> THEN e.message ELSE JSONstringify(e)

RateLimitExceeded(model) ==
    Err("Error", <<"Rate limit", "exceeded (", "429", ") for model", model>>)

IsRateLimit_CaseSensitive(msg) ==
    \/ includes(msg, "429")
    \/ includes(msg, "rate limit")
    \/ includes(msg, "too many requests")

\* completionWithAutoFree: isRateLimit
IsRateLimit(msg) ==
    \/ includes(msg, "429")
    \/ includes(toLowerCase(msg), "rate limit")
    \/ includes(toLowerCase(msg), "too many requests")

NoRankedError ==
    Err("Error", <<"No free models ranked.", "Add models in Settings > Free Rank tab.">>)

AllRateLimitedError(last) ==
    Err("Error", <<"All ranked free models are", "rate limit", "ed.", "Last", "error", ":">>
                 \o last.msg)

(***************************************************************************)
(* Responses of the gateway                                                *)
(***************************************************************************)
Statuses == {200, 201, 429, 500}

\* Response.ok
ok(status) == status >= 200 /\ status <= 299

\* response.json of the non-streaming request; "" is an absent model field
JsonBodies ==
    [error : ErrorFields \cup {NoErrorField},
     content : {<<>>, <<"a">>},
     model : {"", "srv"}]

NoJson == [error |-> NoErrorField, content |-> <<>>, model |-> ""]

NoResponse == [status |-> 0, text |-> <<>>, json |-> NoJson]

\* the response of requestUrl, with the part of it that completion reads:
\* the JSON body with status 200, the text with any other status
Responses ==
    [status : {200}, text : {<<>>}, json : JsonBodies]
        \cup [status : Statuses \ {200}, text : UpstreamTexts, json : {NoJson}]

\* the response of fetch, with the part of it that streamCompletion reads:
\* the body stream when response.ok, the text otherwise
FetchResponses ==
    [status : {s \in Statuses : ok(s)}, text : {<<>>}, hasBody : BOOLEAN]
        \cup [status : {s \in Statuses : ~ok(s)}, text : UpstreamTexts, hasBody : {FALSE}]

NetworkError == Err("TypeError", <<"Failed to fetch">>)

DeltaContents == {<<>>, <<"a">>, <<"b">>}

\* messages of the SyntaxError of JSON.parse: the engine may quote the payload
ParseMessages ==
    { <<"Unexpected token", "in JSON at position 0">>,
      <<"Unexpected token", "error", "is not valid JSON">> }

Line(kind, content, error, msg) ==
    [kind |-> kind, content |-> content, error |-> error, msg |-> msg]

\* the error fields of frames: one the catch block swallows, one it rethrows
\* and the fallback passes on, one it rethrows and the fallback retries
FrameErrorFields ==
    {e \in ErrorFields :
        e.message \in {<<"Too Many Requests">>, <<"provider", "error">>,
                       <<"Rate Limit", "error">>}}

\* the lines of a decoded chunk, after split("\n")
Lines ==
    {Line("delta", c, NoErrorField, <<>>) : c \in DeltaContents}
        \cup {Line("error", <<>>, e, <<>>) : e \in FrameErrorFields}
        \cup {Line("malformed", <<>>, NoErrorField, m) : m \in ParseMessages}
        \cup {Line(k, <<>>, NoErrorField, <<>>) : k \in {"done", "other"}}

SeqsUpTo(S, n) == UNION {[1..k -> S] : k \in 1..n}

\* the values reader.read() may resolve with
ReadValues == SeqsUpTo(Lines, MaxLines)

RECURSIVE Flatten(_)
Flatten(chunks) ==
    IF chunks = <<>> THEN <<>> ELSE Head(chunks) \o Flatten(Tail(chunks))

(***************************************************************************)
(* streamCompletion: the body of the read loop                             *)
(***************************************************************************)
\* what the try block throws for a line, NoError if it completes
TryBlock(line) ==
    CASE line.kind = "malformed" -> Err("SyntaxError", line.msg)
      [] line.kind = "error" -> Err("Error", ErrorFieldMessage(line.error))
      [] OTHER -> NoError

\* the catch block: e instanceof Error && e.message.includes("error")
Rethrown(e) == includes(e.msg, "error")

\* the state of the loop: accumulator, chunks handed to onStream, error
\* fields seen, and the exception that left the loop
LoopState(content, delivered, errorField, thrown) ==
    [content |-> content, delivered |-> delivered, errorField |-> errorField,
     thrown |-> thrown]

\* one iteration of  for (const line of lines)
ProcessLine(line, st) ==
    IF line.kind \in {"other", "done"} THEN st
    ELSE LET e == TryBlock(line)
             seen == IF line.kind = "error"
                     THEN [st EXCEPT !.errorField = line.error]
                     ELSE st
         IN  IF e # NoError
             THEN IF Rethrown(e) THEN [seen EXCEPT !.thrown = e] ELSE seen
             ELSE IF line.content # <<>>
                  THEN [st EXCEPT !.content = @ \o line.content,
                                  !.delivered = Append(@, line.content)]
                  ELSE st

RECURSIVE ProcessLines(_, _)
ProcessLines(lines, st) ==
    IF lines = <<>> THEN st
    ELSE LET r == ProcessLine(Head(lines), st)
         IN  IF r.thrown # NoError THEN r ELSE ProcessLines(Tail(lines), r)

(***************************************************************************)
(* The call chain summarize -> completionWithAutoFree -> completion /      *)
(* streamCompletion, as operators on the record of the service's state     *)
(***************************************************************************)
Cur ==
    [pc |-> pc, idx |-> idx, lastError |-> lastError,
     fullContent |-> fullContent,
     errorFrame |-> errorFrame, attempts |-> attempts,
     attemptError |-> attemptError, result |-> result]

NoResult == [kind |-> "none", content |-> <<>>, model |-> "", error |-> NoError]

Attempt(model, status) == [model |-> model, status |-> status]

\* the outcome of the request in flight is known
Settle(s, status, err) ==
    [s EXCEPT !.attempts[Len(s.attempts)] = Attempt(@.model, status),
              !.attemptError = IF status = "failed" THEN err ELSE @]

\* completion / streamCompletion: the request is sent
IssueRequest(s, model, i) ==
    [s EXCEPT !.pc = IF call.onStream THEN "await_fetch" ELSE "await_request",
              !.idx = i,
              !.attempts = Append(@, Attempt(model, "pending")),
              !.fullContent = <<>>,
              !.errorFrame = NoErrorField]

\* summarize resolves
Return(s, content, model) ==
    [s EXCEPT !.pc = "done",
              !.result = [kind |-> "ok", content |-> content, model |-> model,
                          error |-> NoError]]

\* summarize rejects
Throw(s, err) ==
    [s EXCEPT !.pc = "done",
              !.result = [kind |-> "error", content |-> <<>>, model |-> "",
                          error |-> err]]

UsesAutoFree_AnyFree(model) == model = AUTO_FREE \/ model = "m2"

\* summarize: requestedModel === "auto-free"
UsesAutoFree(model) == model = AUTO_FREE

\* summarize: options.model || this.settings.defaultModel
ResolveModel(optModel, defaultModel) ==
    IF optModel # "" THEN optModel ELSE defaultModel

NextIndex_Skip(i) == i + 2

\* the for..of iterator of completionWithAutoFree advances
NextIndex(i) == i + 1

RecordLastError_First(prev, err) == IF prev = NoError THEN err ELSE prev

\* completionWithAutoFree: lastError = error
RecordLastError(prev, err) == err

RankIsEmpty_Never(rank) == FALSE

\* completionWithAutoFree: freeModels.length === 0
RankIsEmpty(rank) == Len(rank) = 0

\* completionWithAutoFree: the head of the for..of loop, and the throw behind it
ForLoop(s, i) ==
    IF i <= Len(settings.freeModelRank)
    THEN IssueRequest(s, settings.freeModelRank[i], i)
    ELSE Throw(s, AllRateLimitedError(s.lastError))

completionWithAutoFree(s) ==
    IF RankIsEmpty(settings.freeModelRank)
    THEN Throw(s, NoRankedError)
    ELSE ForLoop(s, 1)

\* summarize, up to its first await
summarize(s, model) ==
    IF UsesAutoFree(model)
    THEN completionWithAutoFree(s)
    ELSE IssueRequest(s, model, 0)

\* completion / streamCompletion returns
AttemptSucceeds(s, content, model) ==
    Return(Settle(s, "ok", NoError), content, model)

\* completion / streamCompletion throws: the catch of completionWithAutoFree
AttemptFails(s, err) ==
    LET t == Settle(s, "failed", err)
    IN  IF ~UsesAutoFree(requestedModel)
        THEN Throw(t, err)
        ELSE LET u == [t EXCEPT !.lastError = RecordLastError(@, err)]
             IN  IF IsRateLimit(u.lastError.msg)
                 THEN ForLoop(u, NextIndex(u.idx))
                 ELSE Throw(u, u.lastError)

\* completion, after  await requestUrl(...)
completion(s, model, response) ==
    IF response.status = 429
    THEN AttemptFails(s, RateLimitExceeded(model))
    ELSE IF response.status # 200
    THEN AttemptFails(s, Err("Error", <<"OpenRouter API", "error", ":">>
            \o (IF response.text # <<>> THEN response.text
                ELSE <<"HTTP", ToString(response.status)>>)))
    ELSE IF response.json.error # NoErrorField
    THEN AttemptFails(s, Err("Error", ErrorFieldMessage(response.json.error)))
    ELSE AttemptSucceeds(s, response.json.content,
            IF response.json.model # "" THEN response.json.model ELSE model)

\* streamCompletion, after  await fetch(...)
streamCompletion(s, model, response) ==
    IF response.status = 429
    THEN AttemptFails(s, RateLimitExceeded(model))
    ELSE IF ~ok(response.status)
    THEN AttemptFails(s, Err("Error",
            <<"OpenRouter API", "error", ":", ToString(response.status), "-">>
                \o response.text))
    ELSE IF ~response.hasBody
    THEN AttemptFails(s, Err("Error", <<"No response body reader available">>))
    ELSE [s EXCEPT !.pc = "reading"]

\* streamCompletion, after  await reader.read()  resolved with a value
readLoop(s, model, lines) ==
    LET r == ProcessLines(lines, LoopState(s.fullContent, <<>>, s.errorFrame, NoError))
        t == [s EXCEPT !.fullContent = r.content,
                       !.errorFrame = r.errorField]
    IN  IF r.thrown # NoError THEN AttemptFails(t, r.thrown) ELSE t

\* the request in flight
CurrentModel == attempts[Len(attempts)].model

(***************************************************************************)
(* executeStreamingSummarize: what follows  await this.llmService.summarize *)
(***************************************************************************)
NoActionResult ==
    [kind |-> "none", content |-> <<>>, cancelled |-> FALSE, error |-> NoError]

\* error instanceof DOMException && error.name === "AbortError"
IsAbortError(e) == e.type = "AbortError"

\* return, catch and finally of executeStreamingSummarize, once summarize settled
ActionOutcome(n, chunks) ==
    IF call.entry # "editor" \/ n.pc # "done" THEN actionResult
    ELSE IF n.result.kind = "ok"
    THEN [kind |-> "returned", content |-> n.result.content,
          cancelled |-> FALSE, error |-> NoError]
    ELSE IF IsAbortError(n.result.error)
    THEN [kind |-> "returned", content |-> Flatten(chunks),
          cancelled |-> TRUE, error |-> NoError]
    ELSE [kind |-> "thrown", content |-> <<>>, cancelled |-> FALSE,
          error |-> n.result.error]

\* ctx.cleanup() in the finally block
Cleanup(n, registered) ==
    IF call.entry = "editor" /\ n.pc = "done" THEN registered - 1 ELSE registered

\* the service moves to n, having handed the chunks to onStream
Resume(n, chunks, registered) ==
    /\ pc' = n.pc
    /\ idx' = n.idx
    /\ lastError' = n.lastError
    /\ fullContent' = n.fullContent
    /\ errorFrame' = n.errorFrame
    /\ attempts' = n.attempts
    /\ attemptError' = n.attemptError
    /\ result' = n.result
    /\ streamed' = chunks
    /\ actionResult' = ActionOutcome(n, chunks)
    /\ listeners' = Cleanup(n, registered)
    /\ UNCHANGED <<insertVars, extractVars, laterVars>>

(***************************************************************************)
(* Initial states and actions                                              *)
(***************************************************************************)
NoEditor == [lines |-> <<>>, cursor |-> 0]

NoCtx == [insertPos |-> [line |-> 0, ch |-> 0], indent |-> <<>>,
          currentContent |-> <<>>]

NoExtraction == [kind |-> "none"]

\* no extraction is under way
NoExtract ==
    /\ stack = <<>>
    /\ calls = <<>>
    /\ fetches = <<>>
    /\ extraction = NoExtraction

\* no prompt is built
NoPrompt ==
    /\ customPrompt = <<>>
    /\ outputLanguage = <<>>
    /\ prompts = <<>>

\* no summary is placed by summarizeText
NoPlace ==
    /\ insertBehavior = "below"
    /\ stream = TRUE
    /\ selection = [from |-> 0, to |-> 0]
    /\ clipboard = <<>>
    /\ original = NoEditor

NoFallback ==
    [freeModels |-> 0, index |-> 0, tried |-> <<>>, atStart |-> <<>>,
     state |-> "idle"]

\* the settings tab is closed and no fallback call is under way
NoRank ==
    /\ heap = <<>>
    /\ freeModelRank = 0
    /\ selectedModels = <<>>
    /\ dragId = ""
    /\ lastOperation = ""
    /\ fallback = NoFallback

\* no response body is read
NoSse ==
    /\ body = <<>>
    /\ sent = <<>>

NoRequest == [pc |-> "idle", attempt |-> 0, calls |-> 0, waited |-> FALSE]

\* no Open LLM benchmark is requested
NoOpenLlm ==
    /\ now = 0
    /\ openLlmBackoffUntil = 0
    /\ openLlmLastRequestAt = 0
    /\ openLlm = NoRequest
    /\ requests = <<>>

\* the parts that follow the content extractor play no part
NoLater ==
    /\ NoPrompt
    /\ NoPlace
    /\ NoRank
    /\ NoSse
    /\ NoOpenLlm

\* no streaming insert is modelled: the editor plays no part
NoInsert ==
    /\ editor = NoEditor
    /\ ctx = NoCtx
    /\ insertPc = "idle"
    /\ operations = 0

\* settings.openRouter.freeModelRank: the first models of the catalogue
Ranks == {SubSeq(Catalogue, 1, k) : k \in 0..MaxRank}

\* "" is an omitted options.model
OptModels == {"", AUTO_FREE, "m2"}

Calls ==
    {c \in [entry : {"api", "editor"}, model : OptModels, onStream : BOOLEAN] :
        c.entry = "editor" => c.onStream}

Init ==
    /\ settings \in [defaultModel : {AUTO_FREE, "m1"}, freeModelRank : Ranks]
    /\ call \in Calls
    /\ pc = "idle"
    /\ requestedModel = ""
    /\ idx = 0
    /\ lastError = NoError
    /\ fullContent = <<>>
    /\ errorFrame = NoErrorField
    /\ attempts = <<>>
    /\ attemptError = NoError
    /\ lastResponse = NoResponse
    /\ streamed = <<>>
    /\ aborted = FALSE
    /\ abortAt = -1
    /\ listeners = 0
    /\ result = NoResult
    /\ actionResult = NoActionResult
    /\ NoInsert
    /\ NoExtract
    /\ NoLater

\* LLMService.summarize is called, by executeStreamingSummarize (which first
\* registers the Escape listener in setupStreamingInsert) or through the API
Summarize ==
    /\ pc = "idle"
    /\ requestedModel' = ResolveModel(call.model, settings.defaultModel)
    /\ Resume(summarize(Cur, requestedModel'), streamed,
              IF call.entry = "editor" THEN listeners + 1 ELSE listeners)
    /\ UNCHANGED <<settings, call, lastResponse, aborted, abortAt>>

\* requestUrl resolves
RequestResponds ==
    /\ pc = "await_request"
    /\ \E response \in Responses :
          LET n == completion(Cur, CurrentModel, response)
          IN  /\ Resume(n, streamed, listeners)
              /\ lastResponse' = IF n.pc = "done" THEN response ELSE NoResponse
    /\ UNCHANGED <<settings, call, requestedModel, aborted, abortAt>>

\* requestUrl rejects
RequestRejects ==
    /\ pc = "await_request"
    /\ Resume(AttemptFails(Cur, NetworkError), streamed, listeners)
    /\ UNCHANGED <<settings, call, requestedModel, lastResponse, aborted, abortAt>>

\* fetch resolves
FetchResponds ==
    /\ pc = "await_fetch"
    /\ \E response \in FetchResponses :
          Resume(streamCompletion(Cur, CurrentModel, response), streamed, listeners)
    /\ UNCHANGED <<settings, call, requestedModel, lastResponse, aborted, abortAt>>

\* fetch rejects
FetchRejects ==
    /\ pc = "await_fetch"
    /\ Resume(AttemptFails(Cur, NetworkError), streamed, listeners)
    /\ UNCHANGED <<settings, call, requestedModel, lastResponse, aborted, abortAt>>

\* reader.read() resolves with a chunk
ReadValue ==
    /\ pc = "reading"
    /\ \E lines \in ReadValues :
          LET delivered ==
                  ProcessLines(lines,
                      LoopState(fullContent, <<>>, errorFrame, NoError)).delivered
          IN  /\ Len(streamed) + Len(delivered) <= MaxChunks
              /\ Resume(readLoop(Cur, CurrentModel, lines),
                        streamed \o delivered, listeners)
    /\ UNCHANGED <<settings, call, requestedModel, lastResponse, aborted, abortAt>>

\* reader.read() resolves with done
ReadDone ==
    /\ pc = "reading"
    /\ Resume(AttemptSucceeds(Cur, fullContent, CurrentModel), streamed, listeners)
    /\ UNCHANGED <<settings, call, requestedModel, lastResponse, aborted, abortAt>>

\* reader.read() rejects
ReadRejects ==
    /\ pc = "reading"
    /\ Resume(AttemptFails(Cur, NetworkError), streamed, listeners)
    /\ UNCHANGED <<settings, call, requestedModel, lastResponse, aborted, abortAt>>

\* escapeHandler: the user presses Escape while the listener is registered
PressEscape ==
    /\ listeners > 0
    /\ aborted' = TRUE
    /\ abortAt' = IF aborted THEN abortAt ELSE Len(streamed)
    /\ UNCHANGED <<settings, call, pc, requestedModel, idx, lastError,
                   fullContent, errorFrame, attempts, attemptError, lastResponse,
                   streamed, listeners, result, actionResult>>
    /\ UNCHANGED <<insertVars, extractVars, laterVars>>

Next ==
    \/ Summarize
    \/ RequestResponds
    \/ RequestRejects
    \/ FetchResponds
    \/ FetchRejects
    \/ ReadValue
    \/ ReadDone
    \/ ReadRejects
    \/ PressEscape

Spec == Init /\ [][Next]_vars

TypeOK ==
    /\ pc \in {"idle", "await_request", "await_fetch", "reading", "done"}
    /\ listeners \in 0..1
    /\ Len(streamed) <= MaxChunks

(***************************************************************************)
(* Properties                                                              *)
(***************************************************************************)
rank == settings.freeModelRank

\* the call has started and runs the ranked fallback
InFallback == pc # "idle" /\ requestedModel = AUTO_FREE

LastAttempt == attempts[Len(attempts)]

\* a message counts as a rate limit: "429", or any casing of "rate limit" or
\* "too many requests"
RateLimitMessage(msg) ==
    \E i \in DOMAIN msg :
        msg[i] \in {"429", "rate limit", "Rate limit", "Rate Limit", "RATE LIMIT",
                    "too many requests", "Too Many Requests"}

AllRateLimitedPrefix ==
    <<"All ranked free models are", "rate limit", "ed.", "Last", "error", ":">>

\* C1: in the fallback the requests issued so far are the first models of the
\* ranked list, in list order and one per position; every request but the
\* last has failed before the next was issued; the call resolves exactly when
\* an attempt succeeds, with that attempt's model (and, when streaming, its
\* accumulated content), and no request follows a success.
C1_FallbackInListOrder ==
    InFallback =>
        /\ Len(attempts) <= Len(rank)
        /\ \A i \in DOMAIN attempts :
              /\ attempts[i].model = rank[i]
              /\ i < Len(attempts) => attempts[i].status = "failed"
        /\ (attempts # <<>> /\ LastAttempt.status = "pending")
              => pc \in {"await_request", "await_fetch", "reading"}
        /\ (attempts # <<>> /\ LastAttempt.status = "ok")
              => /\ pc = "done"
                 /\ result.kind = "ok"
                 /\ call.onStream =>
                       /\ result.model = LastAttempt.model
                       /\ result.content = fullContent
        /\ result.kind = "ok" => (attempts # <<>> /\ LastAttempt.status = "ok")

\* C1 witness: a list of three models, the first two attempts failed, the
\* third succeeded and the call returned
C1_Witness ==
    /\ InFallback
    /\ Len(rank) = 3
    /\ Len(attempts) = 3
    /\ attempts[1].status = "failed"
    /\ attempts[2].status = "failed"
    /\ attempts[3].status = "ok"
    /\ result.kind = "ok"

\* an attempt of the fallback fails in this step
FallbackAttemptFails ==
    /\ InFallback
    /\ attempts # <<>>
    /\ LastAttempt.status = "pending"
    /\ attempts'[Len(attempts)].status = "failed"

\* C2: when an attempt of the fallback fails, the next ranked model is
\* requested if and only if the message of the failure is a rate-limit
\* message; any other failure is rethrown as it is and no request follows.
C2_AdvanceIffRateLimit ==
    [][FallbackAttemptFails =>
          IF RateLimitMessage(attemptError'.msg)
          THEN IF Len(attempts) < Len(rank)
               THEN /\ attempts' = Append(SubSeq(attempts', 1, Len(attempts)),
                                          Attempt(rank[Len(attempts) + 1], "pending"))
                    /\ pc' # "done"
               ELSE /\ pc' = "done"
                    /\ Len(attempts') = Len(attempts)
          ELSE /\ pc' = "done"
               /\ Len(attempts') = Len(attempts)
               /\ result'.kind = "error"
               /\ result'.error = attemptError']_vars

\* C2 witness: an attempt failed with "Too Many Requests" (no "429", not in
\* lower case) and the second model is being requested
C2_Witness ==
    /\ InFallback
    /\ includes(attemptError.msg, "Too Many Requests")
    /\ ~includes(attemptError.msg, "429")
    /\ Len(attempts) = 2
    /\ attempts[2].status = "pending"

\* C3: a fallback call that ended on a rate-limit failure of an attempt has
\* made exactly one attempt per model of the list, all failed, and fails with
\* the 'all rate limited' error that embeds the message of the last attempt.
C3_AllRateLimited ==
    (/\ InFallback
     /\ pc = "done"
     /\ attempts # <<>>
     /\ LastAttempt.status = "failed"
     /\ RateLimitMessage(attemptError.msg))
        => /\ Len(attempts) = Len(rank)
           /\ \A i \in DOMAIN attempts :
                 attempts[i].model = rank[i] /\ attempts[i].status = "failed"
           /\ result.kind = "error"
           /\ result.error.msg = AllRateLimitedPrefix \o attemptError.msg

\* C3 witness: three models, three rate-limited attempts, the last one with
\* the 429 of the third model
C3_Witness ==
    /\ InFallback
    /\ pc = "done"
    /\ Len(rank) = 3
    /\ Len(attempts) = 3
    /\ attemptError = RateLimitExceeded(rank[3])
    /\ result.kind = "error"

\* C4: with an empty ranked list the fallback fails with the 'no ranked
\* models' error, has issued no request and has not called onStream.
C4_EmptyRankFails ==
    (InFallback /\ rank = <<>>)
        => /\ pc = "done"
           /\ result.kind = "error"
           /\ result.error = NoRankedError
           /\ attempts = <<>>
           /\ streamed = <<>>

\* C4 witness: a streaming fallback call on an empty list has ended
C4_Witness ==
    /\ InFallback
    /\ rank = <<>>
    /\ call.onStream
    /\ pc = "done"

\* the model summarize resolves: options.model, else the configured default
ResolvedModel == IF call.model # "" THEN call.model ELSE settings.defaultModel

\* C10: the ranked fallback runs if and only if the resolved model is
\* "auto-free"; for any other model there is exactly one request, on that
\* model, and its failure - rate limit included - is what the caller gets.
C10_FallbackIffAutoFree ==
    pc # "idle" =>
        IF ResolvedModel = AUTO_FREE
        THEN /\ \A i \in DOMAIN attempts : attempts[i].model = rank[i]
             /\ rank = <<>> => result.error = NoRankedError
             /\ (pc = "done" /\ result.kind = "error" /\ rank # <<>>
                    /\ RateLimitMessage(attemptError.msg))
                   => Len(attempts) = Len(rank)
        ELSE /\ Len(attempts) = 1
             /\ attempts[1].model = ResolvedModel
             /\ attempts[1].status = "failed"
                   => /\ pc = "done"
                      /\ result.kind = "error"
                      /\ result.error = attemptError

\* C10 witness: a call on the fixed model "m2", with a non-empty ranked list
\* configured, ended on the rate-limit failure of its only attempt
C10_Witness ==
    /\ ResolvedModel = "m2"
    /\ Len(rank) = 3
    /\ pc = "done"
    /\ Len(attempts) = 1
    /\ attemptError = RateLimitExceeded("m2")
    /\ result.error = RateLimitExceeded("m2")

\* C5: once the abort signal has fired with N >= 1 chunks delivered, onStream
\* is not called again and the operation ends as cancelled, its content the
\* concatenation of those N chunks.
C5_AbortStopsStream ==
    (aborted /\ abortAt >= 1)
        => /\ Len(streamed) = abortAt
           /\ pc = "done"
                 => /\ actionResult.kind = "returned"
                    /\ actionResult.cancelled
                    /\ actionResult.content = Flatten(SubSeq(streamed, 1, abortAt))

\* C6: the content a call with onStream resolves with is the concatenation,
\* in delivery order, of every chunk handed to onStream during the call.
C6_ContentIsWhatWasStreamed ==
    (pc = "done" /\ call.onStream /\ result.kind = "ok")
        => result.content = Flatten(streamed)

\* C7: once a frame with an error field has been processed, the attempt has
\* failed with the error of that frame.
C7_ErrorFrameAborts ==
    errorFrame # NoErrorField
        => /\ LastAttempt.status = "failed"
           /\ attemptError = Err("Error", ErrorFieldMessage(errorFrame))

\* C8: no attempt fails because the payload of a frame is not valid JSON.
C8_MalformedFrameSkipped ==
    attemptError.type # "SyntaxError"

\* C9: the non-streaming completion that its response settled: 429 is the
\* rate-limit failure naming the model; another non-2xx status, or an error
\* field in a 2xx body, is a failure of another kind; any other 2xx response
\* succeeds with the content of the body and the model id the server echoed,
\* else the requested one.
C9_CompletionClassification ==
    (pc = "done" /\ lastResponse # NoResponse)
        => IF lastResponse.status = 429
           THEN /\ LastAttempt.status = "failed"
                /\ attemptError = RateLimitExceeded(LastAttempt.model)
           ELSE IF ~ok(lastResponse.status) \/ lastResponse.json.error # NoErrorField
           THEN /\ LastAttempt.status = "failed"
                /\ attemptError # RateLimitExceeded(LastAttempt.model)
           ELSE /\ result.kind = "ok"
                /\ result.content = lastResponse.json.content
                /\ result.model = IF lastResponse.json.model # ""
                                  THEN lastResponse.json.model
                                  ELSE LastAttempt.model

(***************************************************************************)
(* The streaming insert: setupStreamingInsert, handleStreamChunk and       *)
(* executeStreamingSummarize, with the editor's document as lines of       *)
(* characters.  The completion service is seen from its caller: it hands   *)
(* chunks to onStream and settles.                                         *)
(***************************************************************************)
NL == "\n"

Whitespace == {" ", "\t"}

Bullets == {"-", "*", "+"}

Digits == {"1", "2"}

\* String.prototype.split("\n")
RECURSIVE split(_)
split(text) ==
    IF \A i \in DOMAIN text : text[i] # NL THEN <<text>>
    ELSE LET i == CHOOSE k \in DOMAIN text :
                      text[k] = NL /\ \A j \in 1..(k - 1) : text[j] # NL
         IN  <<SubSeq(text, 1, i - 1)>> \o split(SubSeq(text, i + 1, Len(text)))

\* chunk.replace(/\n/g, "\n" + ctx.indent)
RECURSIVE processedChunk(_, _)
processedChunk(chunk, indent) ==
    IF chunk = <<>> THEN <<>>
    ELSE (IF Head(chunk) = NL THEN <<NL>> \o indent ELSE <<Head(chunk)>>)
             \o processedChunk(Tail(chunk), indent)

Min(a, b) == IF a < b THEN a ELSE b

Max(a, b) == IF a < b THEN b ELSE a

\* the editor brings a position past the end of a line, or of the document,
\* back to that end
clipPos(lines, pos) ==
    LET l == Min(Max(pos.line, 0), Len(lines) - 1)
    IN  [line |-> l, ch |-> Min(Max(pos.ch, 0), Len(lines[l + 1]))]

\* editor.replaceRange(text, pos): text is inserted at pos
replaceRange(lines, text, pos) ==
    LET p == clipPos(lines, pos)
        line == lines[p.line + 1]
        before == SubSeq(line, 1, p.ch)
        after == SubSeq(line, p.ch + 1, Len(line))
        parts == split(text)
        n == Len(parts)
        inserted ==
            IF n = 1 THEN <<before \o parts[1] \o after>>
            ELSE <<before \o parts[1]>> \o SubSeq(parts, 2, n - 1)
                     \o <<parts[n] \o after>>
    IN  SubSeq(lines, 1, p.line) \o inserted
            \o SubSeq(lines, p.line + 2, Len(lines))

\* line.match(/^(\s*)/)[1]
RECURSIVE baseIndent(_)
baseIndent(line) ==
    IF line # <<>> /\ Head(line) \in Whitespace
    THEN <<Head(line)>> \o baseIndent(Tail(line))
    ELSE <<>>

\* /^\s*[-*+]\s/.test(line) || /^\s*\d+\.\s/.test(line)
isListItem(line) ==
    LET rest == SubSeq(line, Len(baseIndent(line)) + 1, Len(line))
    IN  \/ Len(rest) >= 2 /\ rest[1] \in Bullets /\ rest[2] \in Whitespace
        \/ \E k \in 1..(Len(rest) - 2) :
              /\ \A j \in 1..k : rest[j] \in Digits
              /\ rest[k + 1] = "."
              /\ rest[k + 2] \in Whitespace

\* setupStreamingInsert: the context it returns
setupStreamingInsert(ed) ==
    LET line == ed.lines[ed.cursor + 1]
        indent == IF isListItem(line) THEN baseIndent(line) \o <<"\t">>
                  ELSE baseIndent(line)
    IN  [insertPos |-> [line |-> ed.cursor + 1, ch |-> 0],
         indent |-> indent,
         currentContent |-> <<>>]

\* setupStreamingInsert: editor.replaceRange("\n", insertPos)
InsertNewline(ed) ==
    [ed EXCEPT !.lines =
        replaceRange(@, <<NL>>,
                     [line |-> ed.cursor, ch |-> Len(ed.lines[ed.cursor + 1])])]

\* handleStreamChunk: where the chunk is inserted
endPos(c) ==
    LET lines == split(c.currentContent)
        lastLineIndex == Len(lines) - 1
    IN  [line |-> c.insertPos.line + lastLineIndex,
         ch |-> IF lastLineIndex = 0
                THEN Len(c.indent) + Len(lines[lastLineIndex + 1])
                ELSE Len(lines[lastLineIndex + 1])]

\* handleStreamChunk: what is inserted
textToInsert(c, chunk) ==
    IF c.currentContent = <<>>
    THEN c.indent \o processedChunk(chunk, c.indent)
    ELSE processedChunk(chunk, c.indent)

\* handleStreamChunk: the document and the context after the chunk
handleStreamChunk(c, ed, chunk) ==
    [editor |-> [ed EXCEPT !.lines =
                    replaceRange(@, textToInsert(c, chunk), endPos(c))],
     ctx |-> [c EXCEPT !.currentContent = @ \o chunk]]

\* every variable of the completion service
serviceVars == <<settings, call, pc, requestedModel, idx, lastError,
                 fullContent, errorFrame, attempts, attemptError,
                 lastResponse, result>>

\* the line of the cursor: plain, indented, a list item, a numbered item
CursorLines ==
    { <<>>, <<"a">>, <<"\t", "a">>, <<"-", " ", "a">>,
      <<" ", "1", ".", " ", "a">>, <<"-", "a">> }

Editors == {[lines |-> <<l, <<"z">>>>, cursor |-> 0] : l \in CursorLines}

\* parsed.choices[0].delta.content of a frame: never empty when handed on
Chunks == { <<"a">>, <<NL>>, <<"a", NL>>, <<NL, "b">>, <<"a", NL, "b">> }

\* what the editor may throw
EditorErrors ==
    { Err("RangeError", <<"Invalid position">>),
      Err("Error", <<"Editor", "error">>) }

\* what LLMService.summarize may reject with
ServiceErrors == {NetworkError, NoRankedError}

InsertInit ==
    /\ settings = [defaultModel |-> "m1", freeModelRank |-> <<>>]
    /\ call = [entry |-> "editor", model |-> "", onStream |-> TRUE]
    /\ pc = "idle"
    /\ requestedModel = ""
    /\ idx = 0
    /\ lastError = NoError
    /\ fullContent = <<>>
    /\ errorFrame = NoErrorField
    /\ attempts = <<>>
    /\ attemptError = NoError
    /\ lastResponse = NoResponse
    /\ result = NoResult
    /\ streamed = <<>>
    /\ aborted = FALSE
    /\ abortAt = -1
    /\ listeners = 0
    /\ actionResult = NoActionResult
    /\ editor \in Editors
    /\ ctx = NoCtx
    /\ insertPc = "idle"
    /\ operations = 0
    /\ NoExtract
    /\ NoLater

\* executeStreamingSummarize: setupStreamingInsert, then summarize is called
\* with a new AbortController
SetupStreamingInsert ==
    /\ insertPc # "streaming"
    /\ operations < MaxOperations
    /\ operations' = operations + 1
    /\ listeners' = listeners + 1
    /\ editor' = InsertNewline(editor)
    /\ ctx' = setupStreamingInsert(editor)
    /\ insertPc' = "streaming"
    /\ streamed' = <<>>
    /\ aborted' = FALSE
    /\ abortAt' = -1
    /\ actionResult' = NoActionResult
    /\ UNCHANGED <<serviceVars, extractVars, laterVars>>

\* executeStreamingSummarize: editor.replaceRange("\n", insertPos) throws in
\* setupStreamingInsert, after addEventListener and before the try block
SetupStreamingInsertThrows ==
    /\ insertPc # "streaming"
    /\ operations < MaxOperations
    /\ operations' = operations + 1
    /\ listeners' = listeners + 1
    /\ insertPc' = "done"
    /\ \E e \in EditorErrors :
          actionResult' = [kind |-> "thrown", content |-> <<>>,
                           cancelled |-> FALSE, error |-> e]
    /\ UNCHANGED <<serviceVars, extractVars, laterVars, editor, ctx, streamed, aborted, abortAt>>

\* executeStreamingSummarize: the catch block
Caught(e) ==
    IF IsAbortError(e)
    THEN [kind |-> "returned", content |-> ctx.currentContent,
          cancelled |-> TRUE, error |-> NoError]
    ELSE [kind |-> "thrown", content |-> <<>>, cancelled |-> FALSE,
          error |-> e]

\* executeStreamingSummarize ends: return or catch, then finally
Ends(r) ==
    /\ insertPc' = "done"
    /\ actionResult' = r
    /\ listeners' = listeners - 1

\* streamCompletion hands a chunk to onStream; the signal is not looked at
OnStream ==
    /\ insertPc = "streaming"
    /\ Len(streamed) < MaxChunks
    /\ \E chunk \in Chunks :
          LET r == handleStreamChunk(ctx, editor, chunk)
          IN  /\ editor' = r.editor
              /\ ctx' = r.ctx
              /\ streamed' = Append(streamed, chunk)
    /\ UNCHANGED <<serviceVars, extractVars, laterVars, insertPc, operations, aborted, abortAt,
                   listeners, actionResult>>

\* editor.replaceRange throws in handleStreamChunk: the catch of the read
\* loop rethrows it or goes on with the next line
OnStreamThrows ==
    /\ insertPc = "streaming"
    /\ Len(streamed) < MaxChunks
    /\ \E chunk \in Chunks, e \in EditorErrors :
          /\ streamed' = Append(streamed, chunk)
          /\ IF Rethrown(e) THEN Ends(Caught(e))
             ELSE UNCHANGED <<insertPc, actionResult, listeners>>
    /\ UNCHANGED <<serviceVars, extractVars, laterVars, editor, ctx, operations, aborted, abortAt>>

\* summarize resolves
SummarizeResolves ==
    /\ insertPc = "streaming"
    /\ Ends([kind |-> "returned", content |-> Flatten(streamed),
             cancelled |-> FALSE, error |-> NoError])
    /\ UNCHANGED <<serviceVars, extractVars, laterVars, editor, ctx, operations, streamed, aborted,
                   abortAt>>

\* summarize rejects
SummarizeRejects ==
    /\ insertPc = "streaming"
    /\ \E e \in ServiceErrors : Ends(Caught(e))
    /\ UNCHANGED <<serviceVars, extractVars, laterVars, editor, ctx, operations, streamed, aborted,
                   abortAt>>

InsertNext ==
    \/ SetupStreamingInsert
    \/ SetupStreamingInsertThrows
    \/ OnStream
    \/ OnStreamThrows
    \/ SummarizeResolves
    \/ SummarizeRejects
    \/ PressEscape

InsertSpec == InsertInit /\ [][InsertNext]_vars

InsertTypeOK ==
    /\ insertPc \in {"idle", "streaming", "done"}
    /\ listeners \in 0..MaxOperations
    /\ operations \in 0..MaxOperations
    /\ Len(streamed) <= MaxChunks

\* the text the chunks handed to onStream make up: the indent, then the
\* chunks with the indent after every newline
ExpectedBlock ==
    ctx.indent \o processedChunk(Flatten(streamed), ctx.indent)

\* the lines of the document from the insertion anchor on
InsertedBlock ==
    SubSeq(editor.lines, ctx.insertPos.line + 1,
           ctx.insertPos.line + Len(split(ExpectedBlock)))

\* C11: while the editor takes every chunk, the inserted block is the indent
\* followed by the chunks in arrival order, each newline followed by the indent
C11_ChunksAppendInOrder ==
    (insertPc = "streaming" /\ streamed # <<>>
        /\ ctx.currentContent = Flatten(streamed))
    => InsertedBlock = split(ExpectedBlock)

\* C12: an operation that has ended has removed its keydown listener
C12_ListenerRemoved == insertPc = "done" => listeners = 0

\* C13: once the abort is signalled no chunk is written to the document, what
\* was inserted stays, and the operation ends cancelled
C13_CancelStopsWrites ==
    [][(aborted /\ insertPc = "streaming")
         => /\ editor' = editor
            /\ (insertPc' = "done" => actionResult'.cancelled)]_vars

(***************************************************************************)
(* ContentExtractor (src/test/cli-test.ts): URLs                           *)
(*                                                                         *)
(* A URL is the record of its parts; the path is the sequence of its       *)
(* segments, the last one split into name and extension.                   *)
(***************************************************************************)
Url(scheme, host, path, ext, query, hash) ==
    [scheme |-> scheme, host |-> host, path |-> path, ext |-> ext,
     query |-> query, hash |-> hash]

\* the URLs written in the texts, by the name they have there: new URL(name)
Links ==
    [article |-> Url("https", "example.com", <<"p">>, "", "", ""),
     short   |-> Url("https", "t.co", <<"x">>, "", "", ""),
     tweet   |-> Url("https", "x.com", <<"u", "status", "1">>, "", "", ""),
     mobile  |-> Url("https", "mobile.twitter.com", <<"u">>, "", "", ""),
     image   |-> Url("https", "example.com", <<"i">>, "png", "", ""),
     video   |-> Url("https", "youtube.com", <<"watch">>, "", "v", ""),
     blob    |-> Url("https", "github.com",
                     <<"o", "r", "blob", "main", "blob", "f">>, "md", "", "L5"),
     blobq   |-> Url("http", "github.com", <<"o", "r", "blob", "f">>, "md",
                     "raw", ""),
     repo    |-> Url("https", "github.com", <<"o", "r", "blob">>, "", "", ""),
     raw     |-> Url("https", "raw.githubusercontent.com",
                     <<"o", "r", "main", "f">>, "md", "", "")]

LinkNames == DOMAIN Links

\* hostname.endsWith("." + domain), for the host names above
endsWithDomain(hostname, domain) ==
    \/ hostname = "mobile.twitter.com" /\ domain = "twitter.com"
    \/ hostname = "mobile.x.com" /\ domain = "x.com"

shorteners == {"t.co", "bit.ly", "tinyurl.com", "goo.gl", "ow.ly", "is.gd"}

isUrlShortener(url) == url.host \in shorteners

\* parsed.pathname.includes("/blob/"): a segment blob that is not the last
HasBlob(path) == \E i \in 1..(Len(path) - 1) : path[i] = "blob"

\* parsed.pathname.replace("/blob/", "/"): the first occurrence goes
replaceBlob(path) ==
    LET i == CHOOSE k \in 1..(Len(path) - 1) :
                 path[k] = "blob" /\ \A j \in 1..(k - 1) : path[j] # "blob"
    IN  SubSeq(path, 1, i - 1) \o SubSeq(path, i + 1, Len(path))

convertGitHubUrl_KeepHost(url) ==
    IF url.host = "github.com" /\ HasBlob(url.path)
    THEN Url("https", "github.com", replaceBlob(url.path), url.ext, "", "")
    ELSE url

\* `https://raw.githubusercontent.com${newPath}`
convertGitHubUrl(url) ==
    IF url.host = "github.com" /\ HasBlob(url.path)
    THEN Url("https", "raw.githubusercontent.com", replaceBlob(url.path),
             url.ext, "", "")
    ELSE url

isRawTextUrl(url) == url.host = "raw.githubusercontent.com"

jsHeavyDomains == {"twitter.com", "x.com", "mobile.twitter.com", "mobile.x.com"}

needsJsRendering_MainDomains(url) == url.host \in {"twitter.com", "x.com"}

needsJsRendering(url) ==
    \E domain \in jsHeavyDomains :
        url.host = domain \/ endsWithDomain(url.host, domain)

(***************************************************************************)
(* ContentExtractor: texts, as sequences of characters.  A link is one     *)
(* character of the text: the name of its URL.                             *)
(***************************************************************************)
\* \s
IsSpace(c) == c \in Whitespace \cup {NL}

SetMax(S) == CHOOSE x \in S : \A y \in S : y <= x

SetMin(S) == CHOOSE x \in S : \A y \in S : x <= y

\* String.prototype.trim
RECURSIVE trim(_)
trim(t) ==
    IF t = <<>> THEN <<>>
    ELSE IF IsSpace(Head(t)) THEN trim(Tail(t))
    ELSE IF IsSpace(t[Len(t)]) THEN trim(SubSeq(t, 1, Len(t) - 1))
    ELSE t

\* the last index of the run of characters satisfying Test that starts at i
\* (i - 1 if it is empty)
RunEnd(t, i, Test(_)) ==
    SetMax({k \in (i - 1)..Len(t) : \A j \in i..k : Test(t[j])})

\* markdown.replace(/\n{3,}/g, "\n\n")
RECURSIVE collapseNewlines(_)
collapseNewlines(t) ==
    IF t = <<>> THEN <<>>
    ELSE IF Head(t) # NL THEN <<Head(t)>> \o collapseNewlines(Tail(t))
    ELSE LET n == RunEnd(t, 1, LAMBDA c : c = NL)
         IN  (IF n >= 3 THEN <<NL, NL>> ELSE SubSeq(t, 1, n))
                 \o collapseNewlines(SubSeq(t, n + 1, Len(t)))

\* ^ with the m flag
IsLineStart(t, i) == i = 1 \/ t[i - 1] = NL

\* $ with the m flag, after position j
IsLineEnd(t, j) == j = Len(t) \/ t[j + 1] = NL

\* markdown.replace(/^\s+$/gm, ""), from position i on: the longest run of
\* white space from a line start to a line end goes
RECURSIVE removeBlankLines(_, _)
removeBlankLines(t, i) ==
    IF i > Len(t) THEN <<>>
    ELSE LET ends == {j \in i..RunEnd(t, i, IsSpace) : IsLineEnd(t, j)}
         IN  IF IsLineStart(t, i) /\ ends # {}
             THEN removeBlankLines(t, SetMax(ends) + 1)
             ELSE <<t[i]>> \o removeBlankLines(t, i + 1)

cleanMarkdown_TrimOnly(markdown) == trim(markdown)

cleanMarkdown(markdown) ==
    trim(removeBlankLines(collapseNewlines(markdown), 1))

\* text.split(/\s+/)
RECURSIVE splitSpace(_)
splitSpace(t) ==
    IF \A i \in DOMAIN t : ~IsSpace(t[i]) THEN <<t>>
    ELSE LET i == SetMin({k \in DOMAIN t : IsSpace(t[k])})
         IN  <<SubSeq(t, 1, i - 1)>>
                 \o splitSpace(SubSeq(t, RunEnd(t, i, IsSpace) + 1, Len(t)))

countWords_Lines(text) == Len(split(trim(text)))

\* text.trim().split(/\s+/).filter(Boolean).length
countWords(text) ==
    Len(SelectSeq(splitSpace(trim(text)), LAMBDA w : w # <<>>))

\* /^#\s+(.+)$/m matches at i
HeadingAt(t, i) ==
    /\ IsLineStart(t, i)
    /\ t[i] = "#"
    /\ i < Len(t)
    /\ IsSpace(t[i + 1])
    /\ \E j \in (i + 2)..Len(t) : t[j] # NL

\* the group of /^#\s+(.+)$/m for the match at i: \s+ takes all the white
\* space it can while a character of the line is left for the group
HeadingGroup(t, i) ==
    LET k == RunEnd(t, i + 1, IsSpace)
        from == IF k < Len(t) THEN k + 1
                ELSE SetMax({j \in (i + 2)..Len(t) : t[j] # NL})
    IN  SubSeq(t, from, RunEnd(t, from, LAMBDA c : c # NL))

\* content.match(/^#\s+(.+)$/m)
Headings(t) == {i \in DOMAIN t : HeadingAt(t, i)}

\* the group of markdown.match(/^(.+)$/m): the first line that is not empty
FirstLine(t) ==
    LET from == SetMin({i \in DOMAIN t : t[i] # NL})
    IN  SubSeq(t, from, RunEnd(t, from, LAMBDA c : c # NL))

\* extractViaJina: title
jinaTitle(markdown) ==
    IF Headings(markdown) # {}
    THEN trim(HeadingGroup(markdown, SetMin(Headings(markdown))))
    ELSE IF \E i \in DOMAIN markdown : markdown[i] # NL
    THEN trim(FirstLine(markdown))
    ELSE <<"Tweet">>

\* the last segment of the path
filename(url) ==
    IF url.path = <<>> THEN <<>>
    ELSE IF url.ext = "" THEN <<url.path[Len(url.path)]>>
    ELSE <<url.path[Len(url.path)], ".", url.ext>>

\* extractRawText: title
rawTitle(content, url) ==
    IF Headings(content) # {}
    THEN trim(HeadingGroup(content, SetMin(Headings(content))))
    ELSE filename(url)

(***************************************************************************)
(* ContentExtractor: extractFirstUrl and the ExtractedContent of each path *)
(***************************************************************************)
NoUrl == Url("", "", <<>>, "", "", "")

\* [^\s<>")\]]
Terminators == Whitespace \cup {NL, "<", ">", "\"", ")", "]"}

\* [.,;:!?)]
TrailingPunctuation == {".", ",", ";", ":", "!", "?", ")"}

\* a match of urlRegex starts at i, and what is left of it after
\* rawUrl.replace(/[.,;:!?)]+$/, "") is the link
IsUrlMatch(t, i) ==
    /\ t[i] \in LinkNames
    /\ \A j \in (i + 1)..RunEnd(t, i + 1, LAMBDA c : c \notin Terminators) :
          t[j] \in TrailingPunctuation

\* /\.(jpg|jpeg|png|gif|webp|svg|ico)$/i, /\.(mp4|webm|mov|avi)$/i, /\.(pdf)$/i
MediaExtensions ==
    {"jpg", "jpeg", "png", "gif", "webp", "svg", "ico", "mp4", "webm", "mov",
     "avi", "pdf"}

\* extractFirstUrl: the URL is passed over
IsSkipped(url) ==
    \/ url.host \in {"twitter.com", "x.com"}
    \/ endsWithDomain(url.host, "twitter.com")
    \/ endsWithDomain(url.host, "x.com")
    \/ url.ext \in MediaExtensions /\ url.query = "" /\ url.hash = ""
    \/ url.host \in {"youtube.com", "www.youtube.com", "youtu.be", "www.youtu.be"}

\* the positions of the links extractFirstUrl may return
Qualifying(content) ==
    {i \in DOMAIN content : IsUrlMatch(content, i) /\ ~IsSkipped(Links[content[i]])}

extractFirstUrl(content) ==
    IF Qualifying(content) = {} THEN NoUrl
    ELSE Links[content[SetMin(Qualifying(content))]]

ExtractedContent(title, content, url, wordCount) ==
    [title |-> title, content |-> content, url |-> url, wordCount |-> wordCount]

\* extractRawText: what it returns for the body of the response
extractRawText(url, content) ==
    ExtractedContent(rawTitle(content, url), trim(content), url,
                     countWords(content))

\* extractViaJina: what it returns for the body of the response
extractViaJina(url, markdown) ==
    ExtractedContent(jinaTitle(markdown), cleanMarkdown(markdown), url,
                     countWords(cleanMarkdown(markdown)))

\* extractFromUrl, generic pages: what it returns for the title of the
\* document and the markdown turndown made of its main content
extractHtml(url, title, markdown) ==
    ExtractedContent(title, cleanMarkdown(markdown), url,
                     countWords(cleanMarkdown(markdown)))

\* `\n\n---\n\n## Linked Article: ${linkedContent.title}\n\n`
LinkedArticle(title) ==
    <<NL, NL, "---", NL, NL, "##", " ", "Linked", " ", "Article:", " ">>
        \o title \o <<NL, NL>>

combine_TweetCount(tweetContent, linkedContent) ==
    ExtractedContent(tweetContent.title,
        tweetContent.content \o LinkedArticle(linkedContent.title)
            \o linkedContent.content,
        tweetContent.url, tweetContent.wordCount)

\* extractFromUrl: tweet and linked content combined
combine(tweetContent, linkedContent) ==
    ExtractedContent(tweetContent.title,
        tweetContent.content \o LinkedArticle(linkedContent.title)
            \o linkedContent.content,
        tweetContent.url, tweetContent.wordCount + linkedContent.wordCount)

(***************************************************************************)
(* ContentExtractor.extractFromUrl as a state machine: one action per      *)
(* settled request, the calls under way on a stack                         *)
(***************************************************************************)
NoContent == ExtractedContent(<<>>, <<>>, NoUrl, 0)

\* extractFromUrl from convertGitHubUrl on, for the resolved URL
Classified(url, followLinks, resolvedUrl) ==
    LET processedUrl == convertGitHubUrl(resolvedUrl)
    IN  [url |-> url, followLinks |-> followLinks,
         pc |-> IF isRawTextUrl(processedUrl) THEN "raw"
                ELSE IF needsJsRendering(processedUrl) THEN "jina"
                ELSE "html",
         processedUrl |-> processedUrl,
         tweetContent |-> NoContent]

\* extractFromUrl up to its first request
Enter(url, followLinks) ==
    IF isUrlShortener(url)
    THEN [url |-> url, followLinks |-> followLinks, pc |-> "head",
          processedUrl |-> url, tweetContent |-> NoContent]
    ELSE Classified(url, followLinks, url)

\* a call of extractFromUrl and, once it settled, what it returned
Call(url, followLinks, depth) ==
    [url |-> url, followLinks |-> followLinks, depth |-> depth,
     outcome |-> "pending", value |-> NoContent]

Fetch(kind, url, depth, outcome, text) ==
    [kind |-> kind, url |-> url, depth |-> depth, outcome |-> outcome,
     text |-> text]

Top == stack[Len(stack)]

Front(st) == SubSeq(st, 1, Len(st) - 1)

\* the URL the call under way requests
Requested ==
    IF Top.pc = "raw" THEN Top.processedUrl ELSE Top.url

\* const linkedContent = await this.extractFromUrl(linkedUrl, false)
NestedFollowLinks_Same == TRUE

NestedFollowLinks == FALSE

\* the innermost call of st returns value: the call that awaits it returns
\* the combined content.  The call of frame k is calls[k].
RECURSIVE Returns(_, _, _)
Returns(st, cs, value) ==
    LET settled == [cs EXCEPT ![Len(st)].outcome = "returned",
                              ![Len(st)].value = value]
    IN  IF Len(st) = 1
        THEN [stack |-> <<>>, calls |-> settled,
              extraction |-> [kind |-> "ok", value |-> value]]
        ELSE Returns(Front(st), settled,
                     combine(st[Len(st) - 1].tweetContent, value))

Throws_Propagates(st, cs, e) ==
    [stack |-> <<>>, calls |-> [cs EXCEPT ![Len(st)].outcome = "thrown"],
     extraction |-> [kind |-> "error", error |-> e]]

\* the innermost call of st throws e: the call that awaits it catches e and
\* returns the tweet
Throws(st, cs, e) ==
    LET settled == [cs EXCEPT ![Len(st)].outcome = "thrown"]
    IN  IF Len(st) = 1
        THEN [stack |-> <<>>, calls |-> settled,
              extraction |-> [kind |-> "error", error |-> e]]
        ELSE Returns(Front(st), settled, st[Len(st) - 1].tweetContent)

\* the texts a response may carry
Bodies ==
    { <<>>,
      <<"a">>,
      <<"a", " ", "article">>,
      <<"a", " ", "tweet", " ", "image", NL, "short", ".">>,
      <<"(", "blob", ")", NL, NL, NL, " ", "a">>,
      <<"#", " ", "a", NL, " ", NL, NL, "b", NL>>,
      <<"a", " ", "video", " ", "mobile">>,
      <<"short", " ", "article">> }

\* extractTitle: og:title, <title>, h1 (as written in the page) or "Untitled"
PageTitles == { <<"T">>, <<NL, "T", NL, NL, NL>>, <<"Untitled">> }

TopUrls ==
    {Links[n] : n \in {"tweet", "mobile", "short", "blob", "blobq", "repo",
                       "article", "raw"}}

\* response.url after the redirects
FinalUrls(url) == {url} \cup {Links[n] : n \in {"article", "tweet", "blob"}}

FetchError(status) == Err("Error", <<"Failed to fetch URL", status>>)

ExtractInit ==
    /\ settings = [defaultModel |-> "m1", freeModelRank |-> <<>>]
    /\ call = [entry |-> "api", model |-> "", onStream |-> FALSE]
    /\ pc = "idle"
    /\ requestedModel = ""
    /\ idx = 0
    /\ lastError = NoError
    /\ fullContent = <<>>
    /\ errorFrame = NoErrorField
    /\ attempts = <<>>
    /\ attemptError = NoError
    /\ lastResponse = NoResponse
    /\ result = NoResult
    /\ streamed = <<>>
    /\ aborted = FALSE
    /\ abortAt = -1
    /\ listeners = 0
    /\ actionResult = NoActionResult
    /\ NoInsert
    /\ NoExtract
    /\ NoLater

\* the variables the extractor leaves alone
summarizeVars ==
    <<serviceVars, insertVars, streamed, aborted, abortAt, listeners,
      actionResult>>

\* extractFromUrl is called
ExtractFromUrl ==
    /\ calls = <<>>
    /\ \E url \in TopUrls, followLinks \in BOOLEAN :
          /\ stack' = <<Enter(url, followLinks)>>
          /\ calls' = <<Call(url, followLinks, 0)>>
    /\ UNCHANGED <<summarizeVars, laterVars, fetches, extraction>>

\* the innermost call goes on with frame, the request being logged
GoesOn(frame, kind, outcome) ==
    /\ stack' = Front(stack) \o <<frame>>
    /\ fetches' = Append(fetches,
                         Fetch(kind, Requested, Len(stack) - 1, outcome, <<>>))
    /\ UNCHANGED <<summarizeVars, laterVars, calls, extraction>>

\* the innermost call settles as r, the request being logged
Settles(r, outcome, text) ==
    /\ stack' = r.stack
    /\ calls' = r.calls
    /\ extraction' = r.extraction
    /\ fetches' = Append(fetches,
                         Fetch(Top.pc, Requested, Len(stack) - 1, outcome, text))
    /\ UNCHANGED <<summarizeVars, laterVars>>

\* resolveShortUrl: the HEAD request is answered
HeadResponds ==
    /\ stack # <<>>
    /\ Top.pc = "head"
    /\ \E responseUrl \in FinalUrls(Top.url) :
          GoesOn(Classified(Top.url, Top.followLinks, responseUrl), "HEAD", "ok")

AfterHeadRejects_Head == "head"

\* resolveShortUrl: the catch of the HEAD request sends a GET request
AfterHeadRejects == "get"

\* resolveShortUrl: the HEAD request fails, a GET request is sent
HeadRejects ==
    /\ stack # <<>>
    /\ Top.pc = "head"
    /\ GoesOn([Top EXCEPT !.pc = AfterHeadRejects], "HEAD", "rejected")

\* resolveShortUrl: the GET request is answered
GetResponds ==
    /\ stack # <<>>
    /\ Top.pc = "get"
    /\ \E responseUrl \in FinalUrls(Top.url) :
          GoesOn(Classified(Top.url, Top.followLinks, responseUrl), "GET", "ok")

\* resolveShortUrl: the GET request fails too, the URL stays
GetRejects ==
    /\ stack # <<>>
    /\ Top.pc = "get"
    /\ GoesOn(Classified(Top.url, Top.followLinks, Top.url), "GET", "rejected")

\* the request for the content fails: fetch rejects, the status is not ok or
\* response.text() rejects
ContentFails ==
    /\ stack # <<>>
    /\ Top.pc \in {"raw", "jina", "html"}
    /\ \/ Settles(Throws(stack, calls, NetworkError), "rejected", <<>>)
       \/ Settles(Throws(stack, calls, FetchError("404")), "not ok", <<>>)
       \/ Settles(Throws(stack, calls, NetworkError), "no body", <<>>)

\* extractRawText: the body of the response is read
RawResponds ==
    /\ stack # <<>>
    /\ Top.pc = "raw"
    /\ \E content \in Bodies :
          Settles(Returns(stack, calls, extractRawText(Top.processedUrl, content)),
                  "ok", content)

\* the generic page is read, parsed and turned into markdown
HtmlResponds ==
    /\ stack # <<>>
    /\ Top.pc = "html"
    /\ \E title \in PageTitles, markdown \in Bodies :
          Settles(Returns(stack, calls, extractHtml(Top.url, title, markdown)),
                  "ok", markdown)

\* extractViaJina returns: the tweet is returned, or its first link followed
JinaResponds ==
    /\ stack # <<>>
    /\ Top.pc = "jina"
    /\ \E markdown \in Bodies :
          LET tweetContent == extractViaJina(Top.url, markdown)
              linkedUrl == extractFirstUrl(tweetContent.content)
          IN  IF Top.followLinks /\ linkedUrl # NoUrl
              THEN /\ stack' = Front(stack)
                          \o <<[Top EXCEPT !.pc = "linked",
                                           !.tweetContent = tweetContent],
                               Enter(linkedUrl, NestedFollowLinks)>>
                   /\ calls' = Append(calls, Call(linkedUrl, NestedFollowLinks,
                                                  Len(stack)))
                   /\ fetches' = Append(fetches,
                          Fetch("jina", Top.url, Len(stack) - 1, "ok", markdown))
                   /\ UNCHANGED <<summarizeVars, laterVars, extraction>>
              ELSE /\ Settles(Returns(stack, calls, tweetContent), "ok", markdown)

ExtractNext ==
    \/ ExtractFromUrl
    \/ HeadResponds
    \/ HeadRejects
    \/ GetResponds
    \/ GetRejects
    \/ ContentFails
    \/ RawResponds
    \/ HtmlResponds
    \/ JinaResponds

ExtractSpec == ExtractInit /\ [][ExtractNext]_vars

ExtractTypeOK ==
    /\ extraction.kind \in {"none", "ok", "error"}
    /\ \A i \in DOMAIN stack :
          stack[i].pc \in {"head", "get", "raw", "jina", "html", "linked"}
    /\ extraction.kind # "none" => stack = <<>>

(***************************************************************************)
(* Properties of the extractor                                             *)
(***************************************************************************)
ContentKinds == {"raw", "jina", "html"}

\* the requests for content made so far
ContentFetches == SelectSeq(fetches, LAMBDA f : f.kind \in ContentKinds)

\* the requests of call i
FetchesOf(i) == {k \in DOMAIN fetches : fetches[k].depth = i - 1}

\* call i went by the path kind and its request was answered with a body
Fetched(i, kind) ==
    \E k \in FetchesOf(i) : fetches[k].kind = kind /\ fetches[k].outcome = "ok"

\* the body call i was answered with
BodyOf(i) ==
    fetches[CHOOSE k \in FetchesOf(i) :
                fetches[k].kind \in ContentKinds /\ fetches[k].outcome = "ok"].text

\* call i returned the tweet combined with a linked article
Combined(i) ==
    /\ calls[i].outcome = "returned"
    /\ i < Len(calls)
    /\ calls[i + 1].outcome = "returned"

\* what extractViaJina made of the tweet of the outermost call
TweetOnly == extractViaJina(calls[1].url, BodyOf(1))

\* the number of whitespace-separated non-empty tokens of a text
Tokens(t) ==
    Cardinality({i \in DOMAIN t :
                    ~IsSpace(t[i]) /\ (i = 1 \/ IsSpace(t[i - 1]))})

Trimmed(t) == t = <<>> \/ (~IsSpace(t[1]) /\ ~IsSpace(t[Len(t)]))

NoLongNewlineRun(t) ==
    \A i \in 1..(Len(t) - 2) : ~(t[i] = NL /\ t[i + 1] = NL /\ t[i + 2] = NL)

\* C14: a call of extractFromUrl makes at most one nested call, only when its
\* followLinks is true; the nested call has followLinks false and makes no
\* call itself, so the depth never exceeds one and at most two contents are
\* requested
C14_DepthOne ==
    /\ Len(calls) <= 2
    /\ Len(stack) <= 2
    /\ \A i \in DOMAIN calls :
          i > 1 => /\ calls[1].followLinks
                   /\ ~calls[i].followLinks
                   /\ calls[i].depth = 1
    /\ Len(ContentFetches) <= 2

\* the nested call read a tweet that has a qualifying link and returned
C14_Witness ==
    /\ extraction.kind = "ok"
    /\ Len(calls) = 2
    /\ Fetched(2, "jina")
    /\ extractFirstUrl(cleanMarkdown(BodyOf(2))) # NoUrl

\* C15: when the extraction of the linked URL fails, the outer call returns
\* the tweet-only content: title, content, url and wordCount of the tweet
C15_LinkedFailureFallsBack ==
    (Len(calls) = 2 /\ calls[2].outcome = "thrown")
    => /\ extraction.kind = "ok"
       /\ extraction.value = TweetOnly
       /\ calls[1].outcome = "returned"

\* the linked URL was a shortener that could not be resolved and then
\* answered with a status that is not ok
C15_Witness ==
    /\ Len(calls) = 2
    /\ calls[2].outcome = "thrown"
    /\ \E k \in FetchesOf(2) :
          fetches[k].kind = "GET" /\ fetches[k].outcome = "rejected"
    /\ \E k \in FetchesOf(2) : fetches[k].outcome = "not ok"

\* C16: for a tweet with exactly one qualifying link whose extraction
\* succeeds, followLinks=true gives the tweet, the separator, the header with
\* the linked title and the linked content, with the two word counts added;
\* followLinks=false makes no nested call and gives the tweet alone
C16_CombinedContent ==
    (/\ extraction.kind = "ok"
     /\ Fetched(1, "jina")
     /\ Cardinality(Qualifying(TweetOnly.content)) = 1)
    => IF calls[1].followLinks
       THEN /\ Len(calls) = 2
            /\ calls[2].outcome = "returned" =>
                  /\ extraction.value.content =
                        TweetOnly.content
                        \o <<NL, NL, "---", NL, NL>>
                        \o <<"##", " ", "Linked", " ", "Article:", " ">>
                        \o calls[2].value.title \o <<NL, NL>>
                        \o calls[2].value.content
                  /\ extraction.value.wordCount =
                        TweetOnly.wordCount + calls[2].value.wordCount
       ELSE /\ Len(calls) = 1
            /\ extraction.value = TweetOnly

\* a tweet with one link was combined with a linked article that has words
C16_Witness ==
    /\ extraction.kind = "ok"
    /\ Fetched(1, "jina")
    /\ Cardinality(Qualifying(TweetOnly.content)) = 1
    /\ Combined(1)
    /\ calls[2].value.wordCount > 0
    /\ TweetOnly.wordCount > 0

\* C17 as stated: the wordCount of every content returned is the number of
\* whitespace-separated non-empty tokens of its content
C17_WordCountIsTokens ==
    \A i \in DOMAIN calls :
        calls[i].outcome = "returned"
        => calls[i].value.wordCount = Tokens(calls[i].value.content)

\* C17 amended: wordCount is the number of tokens of content on the raw, Jina
\* and generic paths; for a tweet combined with its linked article it is the
\* sum of the tokens of the two parts, which leaves out the separator and the
\* header
C17_WordCountOfParts ==
    \A i \in DOMAIN calls :
        calls[i].outcome = "returned"
        => IF Combined(i)
           THEN /\ calls[i].value.wordCount =
                      Tokens(TweetOnly.content) + Tokens(calls[i + 1].value.content)
                /\ calls[i].value.wordCount < Tokens(calls[i].value.content)
           ELSE calls[i].value.wordCount = Tokens(calls[i].value.content)

\* a raw text with several words and surrounding white space was returned
C17_Witness ==
    /\ calls # <<>>
    /\ calls[1].outcome = "returned"
    /\ Fetched(1, "raw")
    /\ calls[1].value.wordCount > 1
    /\ BodyOf(1) # calls[1].value.content

\* C18 as stated: every content returned is trimmed and has no run of three
\* or more newlines
C18_ContentClean ==
    \A i \in DOMAIN calls :
        calls[i].outcome = "returned"
        => /\ Trimmed(calls[i].value.content)
           /\ NoLongNewlineRun(calls[i].value.content)

\* C18 amended: the content of the Jina and generic paths, not combined, is
\* trimmed and has no run of three or more newlines; the content of the raw
\* path is trimmed; the combined content starts without white space and ends
\* without white space unless the linked content is empty
C18_ContentCleanByPath ==
    \A i \in DOMAIN calls :
        calls[i].outcome = "returned"
        => IF Combined(i)
           THEN /\ ~IsSpace(calls[i].value.content[1])
                /\ calls[i + 1].value.content # <<>>
                      => Trimmed(calls[i].value.content)
           ELSE /\ Trimmed(calls[i].value.content)
                /\ ~Fetched(i, "raw")
                      => NoLongNewlineRun(calls[i].value.content)

\* a tweet whose body had three newlines in a row and white space at its end
\* was returned
C18_Witness ==
    /\ calls # <<>>
    /\ calls[1].outcome = "returned"
    /\ Fetched(1, "jina")
    /\ ~Combined(1)
    /\ ~NoLongNewlineRun(BodyOf(1))

\* the requests resolveShortUrl made for call i
Resolutions(i) == {k \in FetchesOf(i) : fetches[k].kind \in {"HEAD", "GET"}}

\* C19: resolveShortUrl sends one HEAD request first and a GET request only
\* after the HEAD request failed, at most once; when both fail the call goes
\* on with the original URL and nothing is thrown
C19_ResolveShortUrl ==
    \A i \in DOMAIN calls :
        LET rs == Resolutions(i)
        IN  /\ Cardinality(rs) <= 2
            /\ \A k \in rs :
                  /\ fetches[k].kind = "HEAD" => k = SetMin(FetchesOf(i))
                  /\ fetches[k].kind = "GET"
                        => /\ k - 1 \in rs
                           /\ fetches[k - 1].kind = "HEAD"
                           /\ fetches[k - 1].outcome = "rejected"
            /\ (\A k \in rs : fetches[k].outcome = "rejected") /\ Cardinality(rs) = 2
                  => /\ calls[i].outcome = "thrown"
                        => \E k \in FetchesOf(i) : fetches[k].kind \in ContentKinds
                     /\ Len(stack) >= i
                        => stack[i].processedUrl = convertGitHubUrl(calls[i].url)
            /\ isUrlShortener(calls[i].url) /\ FetchesOf(i) # {}
                  => fetches[SetMin(FetchesOf(i))].kind = "HEAD"

\* both requests failed and the extraction went on to read the page
C19_Witness ==
    /\ extraction.kind = "ok"
    /\ Len(fetches) = 3
    /\ fetches[1].kind = "HEAD" /\ fetches[1].outcome = "rejected"
    /\ fetches[2].kind = "GET" /\ fetches[2].outcome = "rejected"
    /\ fetches[3].url = calls[1].url

\* C20: a github.com URL with /blob/ in its path is converted to host
\* raw.githubusercontent.com with the first /blob/ of the path replaced by /,
\* and is classified as raw text; any other URL stays as it is
C20_ConvertGitHubUrl ==
    \A i \in DOMAIN stack :
        LET f == stack[i]
        IN  (~isUrlShortener(f.url))
            => IF f.url.host = "github.com"
                  /\ \E k \in 1..(Len(f.url.path) - 1) : f.url.path[k] = "blob"
               THEN /\ f.processedUrl.host = "raw.githubusercontent.com"
                    /\ \E k \in 1..(Len(f.url.path) - 1) :
                          /\ f.url.path[k] = "blob"
                          /\ \A j \in 1..(k - 1) : f.url.path[j] # "blob"
                          /\ f.processedUrl.path =
                                [j \in 1..(Len(f.url.path) - 1) |->
                                    IF j < k THEN f.url.path[j]
                                    ELSE f.url.path[j + 1]]
                    /\ f.processedUrl.ext = f.url.ext
                    /\ f.pc = "raw"
               ELSE f.processedUrl = f.url

\* a blob URL with a second blob segment is being read as raw text
C20_Witness ==
    /\ stack # <<>>
    /\ stack[1].url = Links["blob"]
    /\ stack[1].pc = "raw"
    /\ stack[1].processedUrl.path = <<"o", "r", "main", "blob", "f">>

\* the strategy the claim gives a URL: raw text, then the Jina Reader for
\* twitter.com / x.com and their subdomains, then generic HTML
Strategy(u) ==
    IF u.host = "raw.githubusercontent.com" THEN "raw"
    ELSE IF \E d \in {"twitter.com", "x.com"} :
                u.host = d \/ endsWithDomain(u.host, d)
    THEN "jina"
    ELSE "html"

\* the requests for content call i made
ContentFetchesOf(i) == {k \in FetchesOf(i) : fetches[k].kind \in ContentKinds}

\* C21: the strategy of a call is that of the URL after shortener resolution
\* and GitHub rewrite; a call requests content once, and a JsHeavy page is
\* requested through the Jina Reader for the URL the call was given
C21_StrategyByProcessedUrl ==
    /\ \A i \in DOMAIN stack :
          stack[i].pc \notin {"head", "get"}
          => /\ (stack[i].pc = "linked" /\ Strategy(stack[i].processedUrl) = "jina")
                \/ stack[i].pc = Strategy(stack[i].processedUrl)
             /\ ~isUrlShortener(stack[i].url)
                   => stack[i].processedUrl = convertGitHubUrl(stack[i].url)
    /\ \A i \in DOMAIN calls :
          /\ Cardinality(ContentFetchesOf(i)) <= 1
          /\ calls[i].outcome # "pending" => Cardinality(ContentFetchesOf(i)) = 1
          /\ \A k \in ContentFetchesOf(i) :
                /\ i <= Len(stack) /\ stack[i].pc = "linked"
                      => fetches[k].kind = "jina"
                /\ fetches[k].kind = "jina" => fetches[k].url = calls[i].url
                /\ fetches[k].kind = "raw"
                      => fetches[k].url.host = "raw.githubusercontent.com"

\* a shortener resolved to a GitHub blob page was read as raw text from the
\* rewritten URL
C21_Witness ==
    /\ extraction.kind = "ok"
    /\ isUrlShortener(calls[1].url)
    /\ Len(fetches) = 2
    /\ fetches[1].outcome = "ok"
    /\ fetches[2].kind = "raw"
    /\ fetches[2].url = convertGitHubUrl(Links["blob"])

(***************************************************************************)
(* LLMService.buildSummarizationPrompt.  A text is a sequence of tokens:   *)
(* words, the placeholders, and the replacement patterns of                *)
(* String.prototype.replace.                                               *)
(***************************************************************************)
MaxPrompts == 3

\* no completion and no extraction is under way
NoSummarize ==
    /\ settings = [defaultModel |-> "m1", freeModelRank |-> <<>>]
    /\ call = [entry |-> "api", model |-> "", onStream |-> FALSE]
    /\ pc = "idle"
    /\ requestedModel = ""
    /\ idx = 0
    /\ lastError = NoError
    /\ fullContent = <<>>
    /\ errorFrame = NoErrorField
    /\ attempts = <<>>
    /\ attemptError = NoError
    /\ lastResponse = NoResponse
    /\ result = NoResult
    /\ streamed = <<>>
    /\ aborted = FALSE
    /\ abortAt = -1
    /\ listeners = 0
    /\ actionResult = NoActionResult
    /\ NoExtract

DEFAULT_PROMPT ==
    << "Summarize the following content in approximately ", "{{wordCount}}",
       " words.\n\nRules:\n- Lead with the single most important insight\n\n",
       "{{content}}" >>

LENGTH_WORD_COUNTS == [brief |-> 50, short |-> 100, medium |-> 250, long |-> 500]

SummaryLengths == {"brief", "short", "medium", "long"}

\* String(wordCount)
String(n) == <<ToString(n)>>

\* the replacement string of replace(), expanded for one match: $$ is a
\* dollar sign, $& the match, $` the text before it, $' the text after it;
\* $1 names a group the patterns do not have and stays as it is
GetSubstitution(matched, before, after, replacement) ==
    Flatten([k \in 1..Len(replacement) |->
                CASE replacement[k] = "$$" -> <<"$">>
                  [] replacement[k] = "$&" -> <<matched>>
                  [] replacement[k] = "$`" -> before
                  [] replacement[k] = "$'" -> after
                  [] OTHER -> <<replacement[k]>>])

\* text.replace(/placeholder/g, replacement)
replace(text, placeholder, replacement) ==
    Flatten([k \in 1..Len(text) |->
                IF text[k] = placeholder
                THEN GetSubstitution(placeholder, SubSeq(text, 1, k - 1),
                                     SubSeq(text, k + 1, Len(text)),
                                     replacement)
                ELSE <<text[k]>>])

languageInstruction(language) ==
    IF language # <<>>
    THEN <<"Write the summary in ">> \o language \o <<".">>
    ELSE <<"Write the summary in the same language as the source content.">>

\* customPrompt || this.settings.customPrompt || DEFAULT_PROMPT
template(customPromptOption) ==
    IF customPromptOption # <<>> THEN customPromptOption
    ELSE IF customPrompt # <<>> THEN customPrompt
    ELSE DEFAULT_PROMPT

buildSummarizationPrompt_OutputLanguage(content, length, language, customPromptOption) ==
    replace(replace(replace(template(customPromptOption),
                            "{{content}}", content),
                    "{{wordCount}}", String(LENGTH_WORD_COUNTS[length])),
            "{{language}}",
            languageInstruction(IF language # <<>> THEN language
                                ELSE outputLanguage))

buildSummarizationPrompt(content, length, language, customPromptOption) ==
    replace(replace(replace(template(customPromptOption),
                            "{{content}}", content),
                    "{{wordCount}}", String(LENGTH_WORD_COUNTS[length])),
            "{{language}}", languageInstruction(language))

\* contents: plain, holding placeholders, holding replacement patterns
Contents ==
    { <<"a", "b">>, <<"a", "{{wordCount}}", "{{language}}">>,
      <<"$&", "a", "$$", "$1">> }

Languages == {<<>>, <<"German">>}

\* a template with every placeholder, {{content}} twice
OptionTemplate == <<"{{language}}", "{{content}}", "{{wordCount}}", "{{content}}">>

StoredTemplate == <<"{{wordCount}}", ":", "{{content}}">>

\* the calls: every content with and without a template option, and every
\* length with a language
PromptInputs ==
    [content : Contents, length : {"medium"}, language : {<<>>},
     prompt : {<<>>, OptionTemplate}]
    \cup [content : {<<"a", "b">>}, length : SummaryLengths,
          language : {<<"German">>}, prompt : {OptionTemplate}]

\* what the prompt builder leaves alone
promptFrame == <<summarizeVars, extractVars, placeVars, rankVars, sseVars,
                 openLlmVars>>

PromptInit ==
    /\ NoSummarize
    /\ NoOpenLlm
    /\ NoSse
    /\ NoInsert
    /\ NoPlace
    /\ NoRank
    /\ customPrompt \in {<<>>, StoredTemplate}
    /\ outputLanguage \in Languages
    /\ prompts = <<>>

\* buildSummarizationPrompt is called
BuildSummarizationPrompt ==
    /\ Len(prompts) < MaxPrompts
    /\ \E in \in PromptInputs :
          prompts' = Append(prompts,
              [content |-> in.content, length |-> in.length,
               language |-> in.language, prompt |-> in.prompt,
               customPrompt |-> customPrompt,
               result |-> buildSummarizationPrompt(in.content, in.length,
                                                   in.language, in.prompt)])
    /\ UNCHANGED <<promptFrame, customPrompt, outputLanguage>>

\* the settings tab stores a custom prompt and an output language
SaveSettings ==
    /\ prompts # <<>>
    /\ customPrompt' \in {<<>>, StoredTemplate}
    /\ outputLanguage' \in Languages
    /\ UNCHANGED <<promptFrame, prompts>>

PromptNext == BuildSummarizationPrompt \/ SaveSettings

PromptSpec == PromptInit /\ [][PromptNext]_vars

\* the inputs of a call the claim names
InputsOf(p) == <<p.content, p.length, p.language, p.prompt, p.customPrompt>>

ChosenTemplate(p) ==
    IF p.prompt # <<>> THEN p.prompt
    ELSE IF p.customPrompt # <<>> THEN p.customPrompt
    ELSE DEFAULT_PROMPT

WordCountText(length) ==
    CASE length = "brief" -> "50"
      [] length = "short" -> "100"
      [] length = "medium" -> "250"
      [] length = "long" -> "500"

\* every placeholder of the template replaced by its value, the rest kept
Substituted(p) ==
    Flatten([k \in 1..Len(ChosenTemplate(p)) |->
                CASE ChosenTemplate(p)[k] = "{{content}}" -> p.content
                  [] ChosenTemplate(p)[k] = "{{wordCount}}" ->
                        <<WordCountText(p.length)>>
                  [] ChosenTemplate(p)[k] = "{{language}}" ->
                        IF p.language # <<>>
                        THEN <<"Write the summary in ">> \o p.language \o <<".">>
                        ELSE <<"Write the summary in the same language as the source content.">>
                  [] OTHER -> <<ChosenTemplate(p)[k]>>])

\* C23: the prompt is the chosen template (option, else stored custom prompt,
\* else default) with every occurrence of {{content}}, {{wordCount}} and
\* {{language}} replaced by the content, the word count of the length
\* (50, 100, 250, 500) and the language instruction
C23_PromptFromTemplate ==
    \A i \in DOMAIN prompts : prompts[i].result = Substituted(prompts[i])

\* text holds part as a run of consecutive tokens
Contains(text, part) ==
    \E k \in 1..(Len(text) - Len(part) + 1) :
        SubSeq(text, k, k + Len(part) - 1) = part

\* C29: when the template holds {{content}}, the content is in the prompt
\* as it was given: placeholders and replacement patterns inside it are
\* not interpreted
C29_ContentVerbatim ==
    \A i \in DOMAIN prompts :
        Contains(ChosenTemplate(prompts[i]), <<"{{content}}">>)
        => Contains(prompts[i].result, prompts[i].content)

(***************************************************************************)
(* SummarizeAction.summarizeText and insertSummary.  With stream and an    *)
(* editor the summary is streamed by executeStreamingSummarize; otherwise  *)
(* LLMService.summarize is awaited and insertSummary places the response.  *)
(***************************************************************************)
\* what the prompts and the extractor have no part in
placeFrame == <<serviceVars, extractVars, promptVars, rankVars, sseVars,
                openLlmVars>>

\* response.content
Summaries == { <<"a">>, <<" ", "a", NL>>, <<"a", NL, NL, NL, "b">> }

\* the selected range of the cursor line: none, or its first character
Selections(ed) ==
    {[from |-> 0, to |-> 0]}
    \cup {[from |-> 0, to |-> 1] : k \in 1..Min(1, Len(ed.lines[ed.cursor + 1]))}

formatSummary(summary) == trim(summary)

\* editor.replaceSelection(text)
replaceSelection(ed, sel, text) ==
    LET line == ed.lines[ed.cursor + 1]
        removed == [ed.lines EXCEPT ![ed.cursor + 1] =
                       SubSeq(line, 1, sel.from)
                           \o SubSeq(line, sel.to + 1, Len(line))]
    IN  replaceRange(removed, text, [line |-> ed.cursor, ch |-> sel.from])

\* .filter: an empty line that follows an empty line is removed
RECURSIVE filterEmpty(_, _)
filterEmpty(arr, i) ==
    IF i > Len(arr) THEN <<>>
    ELSE (IF arr[i] = <<>> /\ i > 1 /\ arr[i - 1] = <<>> THEN <<>>
          ELSE <<arr[i]>>) \o filterEmpty(arr, i + 1)

\* .join("\n")
RECURSIVE join(_)
join(arr) ==
    IF arr = <<>> THEN <<>>
    ELSE IF Len(arr) = 1 THEN arr[1]
    ELSE arr[1] \o <<NL>> \o join(Tail(arr))

\* insertSummary, case "below": the summary with the indent of the line
indentedSummary(line, formattedSummary) ==
    LET summaryIndent == IF isListItem(line) THEN baseIndent(line) \o <<"\t">>
                         ELSE baseIndent(line)
        parts == split(formattedSummary)
        mapped == [k \in 1..Len(parts) |->
                      IF trim(parts[k]) # <<>> THEN summaryIndent \o parts[k]
                      ELSE <<>>]
    IN  join(filterEmpty(mapped, 1))

\* insertSummary: the lines of the document and the clipboard afterwards
insertSummary(ed, sel, clip, behavior, summary) ==
    LET formattedSummary == formatSummary(summary)
        line == ed.lines[ed.cursor + 1]
    IN  CASE behavior = "replace" ->
               [lines |-> replaceSelection(ed, sel, formattedSummary),
                clipboard |-> clip]
          [] behavior = "clipboard" ->
               [lines |-> ed.lines, clipboard |-> formattedSummary]
          [] OTHER ->
               [lines |-> replaceRange(ed.lines,
                              <<NL>> \o indentedSummary(line, formattedSummary),
                              [line |-> ed.cursor, ch |-> Len(line)]),
                clipboard |-> clip]

PlaceInit ==
    /\ NoSummarize
    /\ NoOpenLlm
    /\ NoSse
    /\ NoPrompt
    /\ NoRank
    /\ editor \in Editors
    /\ original = editor
    /\ selection \in Selections(editor)
    /\ ctx = NoCtx
    /\ insertPc = "idle"
    /\ operations = 0
    /\ insertBehavior \in {"below", "replace", "clipboard"}
    /\ stream \in BOOLEAN
    /\ clipboard = <<>>

\* summarizeText with stream: executeStreamingSummarize
Streaming ==
    /\ stream
    /\ \/ operations = 0 /\ SetupStreamingInsert
       \/ operations = 0 /\ SetupStreamingInsertThrows
       \/ OnStream
       \/ OnStreamThrows
       \/ SummarizeResolves
       \/ SummarizeRejects
       \/ PressEscape

\* summarizeText without stream: llmService.summarize is called
SummarizeText ==
    /\ ~stream
    /\ insertPc = "idle"
    /\ insertPc' = "summarizing"
    /\ operations' = operations + 1
    /\ UNCHANGED <<placeFrame, placeVars, editor, ctx, streamed, aborted,
                   abortAt, listeners, actionResult>>

\* the response arrives: insertSummary, then the content is returned
InsertSummary ==
    /\ insertPc = "summarizing"
    /\ \E summary \in Summaries :
          LET r == insertSummary(editor, selection, clipboard,
                                 insertBehavior, summary)
          IN  /\ editor' = [editor EXCEPT !.lines = r.lines]
              /\ clipboard' = r.clipboard
              /\ actionResult' = [kind |-> "returned", content |-> summary,
                                  cancelled |-> FALSE, error |-> NoError]
    /\ insertPc' = "done"
    /\ UNCHANGED <<placeFrame, insertBehavior, stream, selection, original,
                   ctx, operations, streamed, aborted, abortAt, listeners>>

\* llmService.summarize rejects: the error is thrown again
SummarizeTextFails ==
    /\ insertPc = "summarizing"
    /\ \E e \in ServiceErrors :
          actionResult' = [kind |-> "thrown", content |-> <<>>,
                           cancelled |-> FALSE, error |-> e]
    /\ insertPc' = "done"
    /\ UNCHANGED <<placeFrame, placeVars, editor, ctx, operations, streamed,
                   aborted, abortAt, listeners>>

PlaceNext ==
    \/ Streaming
    \/ SummarizeText
    \/ InsertSummary
    \/ SummarizeTextFails

PlaceSpec == PlaceInit /\ [][PlaceNext]_vars

\* summarizeText returned a summary that was not cancelled
Summarized ==
    /\ insertPc = "done"
    /\ actionResult.kind = "returned"
    /\ ~actionResult.cancelled

\* C24: the summary is placed as settings.insertBehavior says, with stream
\* as well as without: 'below' adds it after the current line and keeps the
\* lines of the document, 'replace' puts it in place of the selection,
\* 'clipboard' copies it and leaves the document as it was
C24_PlacedByInsertBehavior ==
    Summarized =>
        CASE insertBehavior = "clipboard" ->
               /\ editor.lines = original.lines
               /\ clipboard = trim(actionResult.content)
          [] insertBehavior = "replace" ->
               editor.lines =
                   replaceSelection(original, selection,
                                    trim(actionResult.content))
          [] OTHER ->
               /\ Len(editor.lines) > Len(original.lines)
               /\ editor.lines[1] = original.lines[1]
               /\ editor.lines[Len(editor.lines)]
                     = original.lines[Len(original.lines)]
               /\ clipboard = <<>>

\* without stream the summary is placed as settings.insertBehavior says
NonStreamingPlaced == ~stream => C24_PlacedByInsertBehavior

(***************************************************************************)
(* summarizeUrl: extractFromUrl is awaited, then LLMService.summarize.     *)
(* The extractor and the completion service are the ones above; the        *)
(* completion is requested without onStream.                               *)
(***************************************************************************)
UrlInit ==
    /\ settings = [defaultModel |-> "m1",
                   freeModelRank |-> SubSeq(Catalogue, 1, 2)]
    /\ call \in {[entry |-> "api", model |-> m, onStream |-> FALSE] :
                    m \in {"", AUTO_FREE}}
    /\ pc = "idle"
    /\ requestedModel = ""
    /\ idx = 0
    /\ lastError = NoError
    /\ fullContent = <<>>
    /\ errorFrame = NoErrorField
    /\ attempts = <<>>
    /\ attemptError = NoError
    /\ lastResponse = NoResponse
    /\ result = NoResult
    /\ streamed = <<>>
    /\ aborted = FALSE
    /\ abortAt = -1
    /\ listeners = 0
    /\ actionResult = NoActionResult
    /\ NoInsert
    /\ NoExtract
    /\ NoLater

\* the URLs handed to summarizeUrl: a shortener, a tweet, a raw text
SummarizedUrls == {Links[n] : n \in {"short", "tweet", "raw"}}

\* summarizeUrl is called: extractFromUrl(url) is called and awaited
SummarizeUrl ==
    /\ calls = <<>>
    /\ \E url \in SummarizedUrls :
          /\ stack' = <<Enter(url, TRUE)>>
          /\ calls' = <<Call(url, TRUE, 0)>>
    /\ UNCHANGED <<summarizeVars, laterVars, fetches, extraction>>

SummarizeExtracted_NotAwaited ==
    /\ calls # <<>>
    /\ Summarize

\* await this.contentExtractor.extractFromUrl(url) returned: summarize is
\* called with the extracted content
SummarizeExtracted ==
    /\ extraction.kind = "ok"
    /\ Summarize

\* extractFromUrl threw: the catch block throws the error again
SummarizeUrlFails ==
    /\ extraction.kind = "error"
    /\ actionResult = NoActionResult
    /\ actionResult' = [kind |-> "thrown", content |-> <<>>,
                        cancelled |-> FALSE, error |-> extraction.error]
    /\ UNCHANGED <<serviceVars, insertVars, extractVars, laterVars, streamed,
                   aborted, abortAt, listeners>>

UrlNext ==
    \/ SummarizeUrl
    \/ HeadResponds
    \/ HeadRejects
    \/ GetResponds
    \/ GetRejects
    \/ ContentFails
    \/ RawResponds
    \/ HtmlResponds
    \/ JinaResponds
    \/ SummarizeExtracted
    \/ SummarizeUrlFails
    \/ RequestResponds
    \/ RequestRejects

UrlSpec == UrlInit /\ [][UrlNext]_vars

\* a request of the extractor is awaited
ExtractorAwaits == stack # <<>>

\* a completion request, or a read of its body, is awaited
CompletionAwaits == pc \notin {"idle", "done"}

C25_FailureWitness ==
    /\ extraction.kind = "error"
    /\ actionResult.kind = "thrown"

(***************************************************************************)
(* The ranked list of free models: the operations of the settings tab and  *)
(* the loop of completionWithAutoFree over it.  An array is an entry of    *)
(* heap; a variable that holds an array holds its index.                   *)
(***************************************************************************)
MaxArrays == 3

\* the models of the settings tab
ModelIds == {"m1", "m2", "m3"}

\* isModelFree
isModelFree(id) == id \in {"m1", "m2"}

\* Array.prototype.includes
includesId(arr, id) == \E k \in DOMAIN arr : arr[k] = id

\* Array.prototype.indexOf
indexOf(arr, id) ==
    IF includesId(arr, id)
    THEN SetMin({k \in DOMAIN arr : arr[k] = id}) - 1
    ELSE -1

\* Array.from(new Set(arr)): the first occurrence of every id
RECURSIVE fromSet(_)
fromSet(arr) ==
    IF arr = <<>> THEN <<>>
    ELSE LET front == SubSeq(arr, 1, Len(arr) - 1)
         IN  IF includesId(front, arr[Len(arr)]) THEN fromSet(front)
             ELSE Append(fromSet(front), arr[Len(arr)])

\* arr.splice(start, 1)
spliceOut(arr, start) ==
    SubSeq(arr, 1, start) \o SubSeq(arr, start + 2, Len(arr))

\* arr.splice(start, 0, id)
spliceIn(arr, start, id) ==
    LET at == Min(start, Len(arr))
    IN  SubSeq(arr, 1, at) \o <<id>> \o SubSeq(arr, at + 1, Len(arr))

\* settings.openRouter.freeModelRank = arr, arr being a new array
assign(h, arr) == [heap |-> Append(h, arr), freeModelRank |-> Len(h) + 1]

\* seed from the selected free models
seed(h, selected) == assign(h, fromSet(SelectSeq(selected, isModelFree)))

\* the Remove button of a row
remove(h, ref, modelId) ==
    assign(h, SelectSeq(h[ref], LAMBDA id : id # modelId))

drop_Insert(h, ref, drag, modelId) ==
    assign(h, spliceIn(h[ref], indexOf(h[ref], modelId), drag))

\* the drop handler of a row, past its early returns
drop(h, ref, drag, modelId) ==
    LET fromIndex == indexOf(h[ref], drag)
        toIndex == indexOf(h[ref], modelId)
    IN  assign(h, spliceIn(spliceOut(h[ref], fromIndex), toIndex, drag))

addToFreeRank_Push(h, ref, modelId) ==
    IF ~includesId(h[ref], modelId)
    THEN [heap |-> [h EXCEPT ![ref] = Append(@, modelId)],
          freeModelRank |-> ref]
    ELSE [heap |-> h, freeModelRank |-> ref]

addToFreeRank(h, ref, modelId) ==
    IF ~includesId(h[ref], modelId)
    THEN assign(h, h[ref] \o <<modelId>>)
    ELSE [heap |-> h, freeModelRank |-> ref]

\* toggleSelection(modelId, true)
toggleSelection(existing, modelId) ==
    IF ~includesId(existing, modelId) THEN existing \o <<modelId>>
    ELSE existing

\* the ranked list
Rank == heap[freeModelRank]

rankFrame == <<summarizeVars, extractVars, promptVars, placeVars, sseVars,
               openLlmVars>>

RankInit ==
    /\ NoSummarize
    /\ NoOpenLlm
    /\ NoSse
    /\ NoInsert
    /\ NoPrompt
    /\ NoPlace
    /\ heap \in {<<r>> : r \in {<<"m1", "m2">>, <<"m2", "m3", "m1">>}}
    /\ freeModelRank = 1
    /\ selectedModels = <<"m3", "m2">>
    /\ dragId = ""
    /\ lastOperation = ""
    /\ fallback = NoFallback

\* the tab stores r as the ranked list
Stores(r, operation) ==
    /\ Len(r.heap) <= MaxArrays
    /\ heap' = r.heap
    /\ freeModelRank' = r.freeModelRank
    /\ lastOperation' = operation

SeedFromSelected ==
    /\ Stores(seed(heap, selectedModels), "seed")
    /\ UNCHANGED <<rankFrame, selectedModels, dragId, fallback>>

ClearRanking ==
    /\ Stores(assign(heap, <<>>), "clear")
    /\ UNCHANGED <<rankFrame, selectedModels, dragId, fallback>>

Remove ==
    /\ \E modelId \in ModelIds :
          /\ includesId(Rank, modelId)
          /\ Stores(remove(heap, freeModelRank, modelId), "remove")
    /\ UNCHANGED <<rankFrame, selectedModels, dragId, fallback>>

DragStart ==
    /\ dragId = ""
    /\ \E modelId \in ModelIds :
          /\ includesId(Rank, modelId)
          /\ dragId' = modelId
    /\ UNCHANGED <<rankFrame, heap, freeModelRank, selectedModels,
                   lastOperation, fallback>>

DragEnd ==
    /\ dragId # ""
    /\ dragId' = ""
    /\ UNCHANGED <<rankFrame, heap, freeModelRank, selectedModels,
                   lastOperation, fallback>>

Drop ==
    /\ \E modelId \in ModelIds :
          /\ includesId(Rank, modelId)
          /\ dragId # "" /\ dragId # modelId
          /\ indexOf(Rank, dragId) # -1
          /\ Stores(drop(heap, freeModelRank, dragId, modelId), "drop")
    /\ UNCHANGED <<rankFrame, selectedModels, dragId, fallback>>

AddToFreeRank ==
    /\ \E modelId \in ModelIds :
          /\ Stores(addToFreeRank(heap, freeModelRank, modelId), "add")
          /\ selectedModels' = toggleSelection(selectedModels, modelId)
    /\ UNCHANGED <<rankFrame, dragId, fallback>>

\* for (const modelId of freeModels): the iterator hands out the next model
\* of the array freeModels refers to, if it has one; if not, the call throws
\* "No free models ranked" or "All ranked free models are rate limited"
NextModel(f) ==
    IF f.index < Len(heap[f.freeModels])
    THEN [f EXCEPT !.index = @ + 1,
                   !.tried = Append(@, heap[f.freeModels][f.index + 1]),
                   !.state = "awaiting"]
    ELSE [f EXCEPT !.state = "exhausted"]

\* completionWithAutoFree is called: freeModels is read once
CompletionWithAutoFree ==
    /\ fallback.state = "idle"
    /\ fallback' = NextModel([NoFallback EXCEPT !.freeModels = freeModelRank,
                                                !.atStart = Rank])
    /\ UNCHANGED <<rankFrame, heap, freeModelRank, selectedModels, dragId,
                   lastOperation>>

\* the attempt is rate limited: continue
AttemptRateLimited ==
    /\ fallback.state = "awaiting"
    /\ fallback' = NextModel(fallback)
    /\ UNCHANGED <<rankFrame, heap, freeModelRank, selectedModels, dragId,
                   lastOperation>>

\* the attempt returns, or throws another error
AttemptSettles ==
    /\ fallback.state = "awaiting"
    /\ \E state \in {"returned", "thrown"} :
          fallback' = [fallback EXCEPT !.state = state]
    /\ UNCHANGED <<rankFrame, heap, freeModelRank, selectedModels, dragId,
                   lastOperation>>

RankNext ==
    \/ SeedFromSelected
    \/ ClearRanking
    \/ Remove
    \/ DragStart
    \/ DragEnd
    \/ Drop
    \/ AddToFreeRank
    \/ CompletionWithAutoFree
    \/ AttemptRateLimited
    \/ AttemptSettles

RankSpec == RankInit /\ [][RankNext]_vars

NoDuplicates(arr) ==
    \A i, j \in DOMAIN arr : arr[i] = arr[j] => i = j

\* the ids of b are those of a, each as often
SameIds(a, b) ==
    /\ Len(a) = Len(b)
    /\ \A id \in ModelIds :
          Cardinality({k \in DOMAIN a : a[k] = id})
              = Cardinality({k \in DOMAIN b : b[k] = id})

\* C26: the ranked list never holds an id twice, and a drag-and-drop
\* reorder keeps its ids, changing their order only
C26_RankDuplicateFree ==
    /\ NoDuplicates(Rank)
    /\ lastOperation = "drop"
          => /\ SameIds(heap[freeModelRank - 1], Rank)
             /\ heap[freeModelRank - 1] # Rank

\* a row of a list of three was dropped on another row
C26_Witness ==
    /\ lastOperation = "drop"
    /\ Len(Rank) = 3
    /\ dragId = Rank[3]

\* C28: a fallback call tries the models of the ranked list as it was when
\* the call started, in order: none is skipped, tried twice or added, while
\* the settings tab changes the list
C28_IteratesListAtStart ==
    /\ fallback.tried = SubSeq(fallback.atStart, 1, Len(fallback.tried))
    /\ Len(fallback.tried) <= Len(fallback.atStart)
    /\ fallback.state = "exhausted" => fallback.tried = fallback.atStart
    /\ fallback.freeModels # 0 => heap[fallback.freeModels] = fallback.atStart

\* the list was changed while the second attempt of a call was awaited
C28_Witness ==
    /\ fallback.state = "awaiting"
    /\ Len(fallback.tried) = 2
    /\ Rank # fallback.atStart
    /\ lastOperation = "add"

(***************************************************************************)
(* streamCompletion: the response body as characters.  A frame is the      *)
(* line  data: {...}  followed by an empty line; "data: " and the parts of *)
(* the JSON text are single characters of the model.                       *)
(***************************************************************************)
\* the frame of a delta content
Frame(content) == <<"data: ", "{", content, "}", NL, NL>>

DoneFrame == <<"data: ", "[DONE]", NL, NL>>

\* the body of a response that streams the contents
RECURSIVE Body(_)
Body(contents) ==
    IF contents = <<>> THEN DoneFrame
    ELSE Frame(Head(contents)) \o Body(Tail(contents))

\* JSON.parse(data) returns: data is the whole JSON text of a frame
IsJson(data) == Len(data) = 3 /\ data[1] = "{" /\ data[3] = "}"

\* a line of chunk.split("\n") as the loop body takes it
decodeLine(line) ==
    IF line = <<>> \/ line[1] # "data: "
    THEN Line("other", <<>>, NoErrorField, <<>>)
    ELSE LET data == Tail(line)
         IN  IF data = <<"[DONE]">>
             THEN Line("done", <<>>, NoErrorField, <<>>)
             ELSE IF IsJson(data)
             THEN Line("delta", <<data[2]>>, NoErrorField, <<>>)
             ELSE Line("malformed", <<>>, NoErrorField,
                       <<"Unexpected token", "in JSON at position 0">>)

\* decoder.decode(value).split("\n")
decodeLines(chunk) ==
    LET lines == split(chunk)
    IN  [k \in 1..Len(lines) |-> decodeLine(lines[k])]

sseFrame == <<settings, call, requestedModel, idx, lastError, errorFrame,
              attempts, attemptError, lastResponse, result, aborted, abortAt,
              listeners, actionResult, insertVars, extractVars, promptVars,
              placeVars, rankVars, openLlmVars>>

SseInit ==
    /\ NoSummarize
    /\ NoOpenLlm
    /\ NoInsert
    /\ NoPrompt
    /\ NoPlace
    /\ NoRank
    /\ sent \in SeqsUpTo({"a", "b"}, MaxChunks)
    /\ body = <<>>

\* fetch resolves with the response: the server streams the frames of sent
Fetch200 ==
    /\ pc = "idle"
    /\ pc' = "reading"
    /\ body' = Body(sent)
    /\ UNCHANGED <<sseFrame, sent, fullContent, streamed>>

\* reader.read() resolves with the next characters of the body, however
\* many the network delivered
Read ==
    /\ pc = "reading"
    /\ \E n \in 1..Len(body) :
          LET st == ProcessLines(decodeLines(SubSeq(body, 1, n)),
                        LoopState(fullContent, <<>>, NoErrorField, NoError))
          IN  /\ fullContent' = st.content
              /\ streamed' = streamed \o st.delivered
              /\ body' = SubSeq(body, n + 1, Len(body))
    /\ UNCHANGED <<sseFrame, sent, pc>>

\* reader.read() resolves with done: streamCompletion returns fullContent
ReadEnds ==
    /\ pc = "reading"
    /\ body = <<>>
    /\ pc' = "done"
    /\ UNCHANGED <<sseFrame, sseVars, fullContent, streamed>>

SseNext == Fetch200 \/ Read \/ ReadEnds

SseSpec == SseInit /\ [][SseNext]_vars

\* what one read of the whole body hands to onStream
OneRead ==
    ProcessLines(decodeLines(Body(sent)),
                 LoopState(<<>>, <<>>, NoErrorField, NoError))

\* C27: however the body is split into reads, streamCompletion hands the
\* same contents to onStream and returns the same content as when the body
\* arrives in one read
C27_SplitIndependent ==
    pc = "done" => /\ streamed = OneRead.delivered
                   /\ fullContent = OneRead.content

(***************************************************************************)
(* SummarizeSettingTab.requestOpenLlm and rateLimitOpenLlm, with the clock *)
(* Date.now() in milliseconds.  Time passes in sleep, while requestUrl is  *)
(* awaited, and between the calls.                                         *)
(***************************************************************************)
MaxCalls == 2

minDelayMs == 700

maxRetries == 2

\* Date.now() + 60_000
backoffMs == 60000

\* sleep(2000 * (attempt + 1))
retryDelay(attempt) == 2000 * (attempt + 1)

\* how long requestUrl takes
Latencies == {100, 1000}

\* how long the tab waits before the next call
Pauses == {1000, 60000}

\* this.openLlmBackoffUntil && Date.now() < this.openLlmBackoffUntil
BackoffOpen(until, at) == until # 0 /\ at < until

openLlmFrame == <<summarizeVars, extractVars, promptVars, placeVars, rankVars,
                  sseVars>>

OpenLlmInit ==
    /\ NoSummarize
    /\ NoInsert
    /\ NoPrompt
    /\ NoPlace
    /\ NoRank
    /\ NoSse
    /\ NoOpenLlm

\* requestOpenLlm is called: null is returned while the backoff is open,
\* else the loop is entered with attempt 0
RequestOpenLlm ==
    /\ openLlm.pc = "idle"
    /\ openLlm.calls < MaxCalls
    /\ openLlm' = [openLlm EXCEPT
                      !.calls = @ + 1,
                      !.attempt = 0,
                      !.waited = FALSE,
                      !.pc = IF BackoffOpen(openLlmBackoffUntil, now)
                             THEN "idle" ELSE "rateLimit"]
    /\ UNCHANGED <<openLlmFrame, now, openLlmBackoffUntil,
                   openLlmLastRequestAt, requests>>

\* await this.rateLimitOpenLlm(), then requestUrl(options) is issued
RateLimitOpenLlm ==
    /\ openLlm.pc = "rateLimit"
    /\ now' = now + Max(0, openLlmLastRequestAt + minDelayMs - now)
    /\ openLlmLastRequestAt' = now'
    /\ requests' = Append(requests,
                          [at |-> now', backoffUntil |-> openLlmBackoffUntil,
                           call |-> openLlm.calls])
    /\ openLlm' = [openLlm EXCEPT !.pc = "request"]
    /\ UNCHANGED <<openLlmFrame, openLlmBackoffUntil>>

\* requestUrl settles with a response other than 429, or throws another
\* error: requestOpenLlm returns
RequestSettles ==
    /\ openLlm.pc = "request"
    /\ \E latency \in Latencies : now' = now + latency
    /\ openLlm' = [openLlm EXCEPT !.pc = "idle"]
    /\ UNCHANGED <<openLlmFrame, openLlmBackoffUntil, openLlmLastRequestAt,
                   requests>>

\* requestUrl answers 429, or throws with status 429: the backoff is set
\* and the retry delay awaited
RequestRateLimited ==
    /\ openLlm.pc = "request"
    /\ \E latency \in Latencies : now' = now + latency
    /\ openLlmBackoffUntil' = now' + backoffMs
    /\ openLlm' = [openLlm EXCEPT !.pc = "sleep"]
    /\ UNCHANGED <<openLlmFrame, openLlmLastRequestAt, requests>>

\* sleep(2000 * (attempt + 1)) is over: continue
Retry ==
    /\ openLlm.pc = "sleep"
    /\ now' = now + retryDelay(openLlm.attempt)
    /\ openLlm' = [openLlm EXCEPT
                      !.attempt = @ + 1,
                      !.pc = IF openLlm.attempt + 1 <= maxRetries
                             THEN "rateLimit" ELSE "idle"]
    /\ UNCHANGED <<openLlmFrame, openLlmBackoffUntil, openLlmLastRequestAt,
                   requests>>

\* time passes before the next call
Pause ==
    /\ openLlm.pc = "idle"
    /\ openLlm.calls > 0
    /\ ~openLlm.waited
    /\ \E pause \in Pauses : now' = now + pause
    /\ openLlm' = [openLlm EXCEPT !.waited = TRUE]
    /\ UNCHANGED <<openLlmFrame, openLlmBackoffUntil, openLlmLastRequestAt,
                   requests>>

OpenLlmNext ==
    \/ RequestOpenLlm
    \/ RateLimitOpenLlm
    \/ RequestSettles
    \/ RequestRateLimited
    \/ Retry
    \/ Pause

OpenLlmSpec == OpenLlmInit /\ [][OpenLlmNext]_vars

\* the requests a call issued
RequestsOf(c) == {k \in DOMAIN requests : requests[k].call = c}

\* C30: no Open LLM request is issued while the backoff opened by a 429 is
\* open, the retries of one call included, and a call issues three requests
\* at most
C30_NoRequestDuringBackoff ==
    /\ \A k \in DOMAIN requests :
          ~BackoffOpen(requests[k].backoffUntil, requests[k].at)
    /\ \A c \in 1..MaxCalls : Cardinality(RequestsOf(c)) <= 3

\* a call that starts while the backoff is open issues no request, and a
\* call issues three requests at most
CallsHonourBackoff ==
    /\ \A k \in DOMAIN requests :
          BackoffOpen(requests[k].backoffUntil, requests[k].at)
          => k > 1 /\ requests[k - 1].call = requests[k].call
    /\ \A c \in 1..MaxCalls : Cardinality(RequestsOf(c)) <= 3

====
